---- MODULE Spec2Model ----
(***************************************************************************)
(* Model of the event store (mongostore.Store) and of the aggregate        *)
(* repository built on it.                                                 *)
(*                                                                         *)
(*   entries   the committed documents of the events collection           *)
(*   states    the committed documents of the states collection: a bag,   *)
(*             since the collection has no unique index and two documents *)
(*             of one aggregate can coexist                                *)
(*   tx        the session of each concurrent Insert call (TxSpec)        *)
(*   agg       the aggregate a caller of the repository holds (RepoSpec)  *)
(*   call      the last call made on the repository or the store, and     *)
(*             what it returned (RepoSpec)                                *)
(***************************************************************************)
EXTENDS Integers, Sequences, FiniteSets, Bags, TLC

VARIABLES entries, states, tx, agg, call, use, cache, runs, job, pipe, sub, bus,
          locks, filt, app

\* The variables of the repository's Use loop and of the projection job; the
\* specifications of the store and of the repository leave them alone.
jobVars == <<use, cache, runs, job, pipe, sub, bus, locks, filt, app>>

vars == <<entries, states, tx, agg, call, jobVars>>

\* ------------------------------------------------------------------ bounds

\* Highest aggregate version an event of the input pool carries.
MaxVersion == 3

\* Longest batch of events handed to one Insert call.
MaxBatch == 2

\* uuid.Nil, the id of an event that belongs to no aggregate.
NilID == 0

\* ------------------------------------------------------------------ events

\* The writers that create events; each writer gives its events its own ids.
Sources == {"w1", "w2"}

RECURSIVE Pow2(_)
Pow2(n) == IF n <= 0 THEN 1 ELSE 2 * Pow2(n - 1)

\* event.New(..., event.Aggregate(name, id, version)): the payload of the
\* version-v event is A = 2^v (the payloads 2, 4, 8 of the tests).
Evt(src, an, ai, v) ==
    [id |-> <<src, an, ai, v>>, aggregateName |-> an, aggregateID |-> ai,
     aggregateVersion |-> v, data |-> Pow2(v)]

\* An event without aggregate data.
PlainEvt(src) == Evt(src, "", NilID, 0)

\* The aggregates of the model: X and Y differ in the name, X and Z in the id.
AggX == <<"foo", 1>>
AggY == <<"bar", 1>>
AggZ == <<"foo", 2>>
Aggregates == {AggX, AggY, AggZ}

\* ------------------------------------------------------------------ errors

NoErr == [kind |-> "nil"]

\* fmt.Errorf("msg: %w", err)
Wrap(msg, err) == [kind |-> "wrapped", msg |-> msg, err |-> err]

\* errors.Unwrap until the innermost error
RECURSIVE Cause(_)
Cause(err) == IF err.kind = "wrapped" THEN Cause(err.err) ELSE err

\* An error of the driver or the server (decode, write, commit ...).
MongoErr(what) == [kind |-> "mongo", what |-> what]

NewVersionError(an, ai, cur, evt) ==
    [kind |-> "VersionError", AggregateName |-> an, AggregateID |-> ai,
     CurrentVersion |-> cur, Event |-> evt]

\* errors.As(err, *VersionError)
IsVersionError(err) == Cause(err).kind = "VersionError"

\* ------------------------------------------------------------------ store

Encode(data) == [bytes |-> data]
Decode(bytes) == bytes.bytes

entryOf(evt) ==
    [ID |-> evt.id, AggregateName |-> evt.aggregateName,
     AggregateID |-> evt.aggregateID,
     AggregateVersion |-> evt.aggregateVersion, Data |-> Encode(evt.data)]

eventOf(e) ==
    [id |-> e.ID, aggregateName |-> e.AggregateName,
     aggregateID |-> e.AggregateID, aggregateVersion |-> e.AggregateVersion,
     data |-> Decode(e.Data)]

\* The partial filter of the unique index goes_aggregate.
InAggregateIndex(e) == e.AggregateName # "" /\ e.AggregateID # NilID

\* The unique indexes goes_id and goes_aggregate refuse document e.
DuplicateKey(ents, e) ==
    \E x \in ents :
        \/ x.ID = e.ID
        \/ /\ InAggregateIndex(x)
           /\ InAggregateIndex(e)
           /\ x.AggregateName = e.AggregateName
           /\ x.AggregateID = e.AggregateID
           /\ x.AggregateVersion = e.AggregateVersion

\* The documents of the states collection that match the filter.
Matching(sts, an, ai) ==
    {d \in BagToSet(sts) : d.AggregateName = an /\ d.AggregageID = ai}

NoDocument == [AggregateName |-> "", AggregageID |-> NilID, Version |-> -1]

\* states.FindOne(filter): what it can return. Without a sort the server
\* returns any one of the matching documents.
FindOne(sts, an, ai) ==
    IF Matching(sts, an, ai) = {} THEN {NoDocument} ELSE Matching(sts, an, ai)

ZeroState == [AggregateName |-> "", AggregageID |-> NilID, Version |-> 0]

\* validateVersion with a strict comparison: an event of the current version
\* passes.
validateVersionStrict(found, events, decodeFails) ==
    IF Len(events) = 0 THEN [st |-> ZeroState, err |-> NoErr]
    ELSE LET aggregateName == events[1].aggregateName
             aggregateID == events[1].aggregateID
             st == IF found = NoDocument
                   THEN [AggregateName |-> aggregateName,
                         AggregageID |-> aggregateID, Version |-> 0]
                   ELSE found
         IN IF aggregateName = "" \/ aggregateID = NilID
            THEN [st |-> ZeroState, err |-> NoErr]
            ELSE IF decodeFails
            THEN [st |-> ZeroState,
                  err |-> Wrap("decode state", MongoErr("decode"))]
            ELSE IF st.Version > events[1].aggregateVersion
            THEN [st |-> st,
                  err |-> NewVersionError(aggregateName, aggregateID,
                                          st.Version, events[1])]
            ELSE [st |-> st, err |-> NoErr]

\* validateVersion, given the document found that FindOne returned.
validateVersion(found, events, decodeFails) ==
    IF Len(events) = 0 THEN [st |-> ZeroState, err |-> NoErr]
    ELSE LET aggregateName == events[1].aggregateName
             aggregateID == events[1].aggregateID
             st == IF found = NoDocument
                   THEN [AggregateName |-> aggregateName,
                         AggregageID |-> aggregateID, Version |-> 0]
                   ELSE found
         IN IF aggregateName = "" \/ aggregateID = NilID
            THEN [st |-> ZeroState, err |-> NoErr]
            ELSE IF decodeFails
            THEN [st |-> ZeroState,
                  err |-> Wrap("decode state", MongoErr("decode"))]
            ELSE IF st.Version >= events[1].aggregateVersion
            THEN [st |-> st,
                  err |-> NewVersionError(aggregateName, aggregateID,
                                          st.Version, events[1])]
            ELSE [st |-> st, err |-> NoErr]

\* Store.insert of one event into the documents the transaction sees.
insert(ents, evt, fails) ==
    IF fails THEN [entries |-> ents, err |-> Wrap("mongo", MongoErr("write"))]
    ELSE IF DuplicateKey(ents, entryOf(evt))
    THEN [entries |-> ents, err |-> Wrap("mongo", MongoErr("duplicate key"))]
    ELSE [entries |-> ents \cup {entryOf(evt)}, err |-> NoErr]

\* What Insert returns after it aborted the transaction: err is assigned
\* the result of AbortTransaction (nil, the abort is taken to succeed) before
\* it is wrapped, so the error of the failed step is not in the chain.
AbortedErr(msg, err) == Wrap(msg, NoErr)

\* The loop of Store.Insert over the events, from the k-th on.
RECURSIVE insertEvents(_, _, _, _)
insertEvents(ents, events, k, failAt) ==
    IF k > Len(events) THEN [entries |-> ents, err |-> NoErr]
    ELSE LET r == insert(ents, events[k], failAt = k)
         IN IF r.err # NoErr
            THEN [entries |-> ents, err |-> AbortedErr("insert", r.err)]
            ELSE insertEvents(r.entries, events, k + 1, failAt)

\* states.ReplaceOne(filter, st, upsert): document old is replaced by st, or
\* st is inserted when the filter matched no document.
ReplaceOne(sts, old, st) ==
    IF old = NoDocument THEN sts (+) SetToBag({st})
    ELSE (sts (-) SetToBag({old})) (+) SetToBag({st})

\* updateState, given the document old that the filter of ReplaceOne matches.
updateState(sts, old, st, events, fails) ==
    IF Len(events) = 0 \/ st.AggregateName = "" \/ st.AggregageID = NilID
    THEN [states |-> sts, err |-> NoErr]
    ELSE IF fails THEN [states |-> sts, err |-> Wrap("mongo", MongoErr("write"))]
    ELSE [states |-> ReplaceOne(sts, old, [st EXCEPT
                        !.Version = events[Len(events)].aggregateVersion]),
          err |-> NoErr]

\* ctx.AbortTransaction / the end of the session: the writes are dropped.
AbortTransaction(committed, written) == committed

\* ctx.CommitTransaction: the writes become the committed documents.
CommitTransaction(committed, written) == written

\* The points at which the backend can fail one Insert call: the read of the
\* state document, the k-th insert, the write of the state document, the
\* commit.
NoFail == [at |-> "none", k |-> 0]
Fails(events) ==
    {NoFail, [at |-> "find", k |-> 0], [at |-> "update", k |-> 0],
     [at |-> "commit", k |-> 0]}
        \cup {[at |-> "insert", k |-> k] : k \in 1..Len(events)}

\* The aggregate that Insert validates: that of the first event.
FirstName(events) == IF Len(events) = 0 THEN "" ELSE events[1].aggregateName
FirstID(events) == IF Len(events) = 0 THEN NilID ELSE events[1].aggregateID

\* Store.Insert run alone against the committed documents; found is the
\* state document its transaction reads and replaces.
InsertResult(ents, sts, events, found, fail) ==
    LET db == [entries |-> ents, states |-> sts]
        v == validateVersion(found, events, fail.at = "find")
        ins == insertEvents(ents, events, 1,
                            IF fail.at = "insert" THEN fail.k ELSE 0)
        upd == updateState(sts, found, v.st, events, fail.at = "update")
        written == [entries |-> ins.entries, states |-> upd.states]
    IN IF v.err # NoErr
       THEN [db |-> AbortTransaction(db, db),
             err |-> Wrap("validate version", v.err)]
       ELSE IF ins.err # NoErr
       THEN [db |-> AbortTransaction(db, written), err |-> ins.err]
       ELSE IF upd.err # NoErr
       THEN [db |-> AbortTransaction(db, written),
             err |-> AbortedErr("update state", upd.err)]
       ELSE IF fail.at = "commit"
       THEN [db |-> AbortTransaction(db, written),
             err |-> Wrap("commit transaction", MongoErr("commit"))]
       ELSE [db |-> CommitTransaction(db, written), err |-> NoErr]

\* The call gets as far as the point where fail strikes.
Reaches(ents, events, found, fail) ==
    LET valid == validateVersion(found, events, FALSE).err = NoErr
        named == FirstName(events) # "" /\ FirstID(events) # NilID
        done(k) == insertEvents(ents, SubSeq(events, 1, k), 1, 0).err = NoErr
    IN CASE fail.at = "none" -> TRUE
         [] fail.at = "find" -> named
         [] fail.at = "insert" -> valid /\ done(fail.k - 1)
         [] fail.at = "update" -> valid /\ named /\ done(Len(events))
         [] fail.at = "commit" -> valid /\ done(Len(events))

\* Store.Delete: entries.DeleteOne by id.
DeleteOne(ents, id) == {e \in ents : e.ID # id}

\* -------------------------------------------------------------- aggregate

\* The aggregate of the repository tests: aggregate.New("foo", id) with the
\* state Foo.
newMockAggregate(a) ==
    [name |-> a[1], id |-> a[2], version |-> 0, changes |-> <<>>, Foo |-> 0]

\* mockAggregate.ApplyEvent: Foo sums the payloads.
ApplyEvent(a, evt) == [a EXCEPT !.Foo = @ + evt.data]

\* aggregate.ApplyHistory: the events are applied in order to a, whose
\* version advances to that of each applied event.
RECURSIVE ApplyHistory(_, _)
ApplyHistory(a, events) ==
    IF Len(events) = 0 THEN a
    ELSE ApplyHistory([ApplyEvent(a, Head(events)) EXCEPT
                          !.version = Head(events).aggregateVersion],
                      Tail(events))

\* aggregate.UncommittedVersion
UncommittedVersion(a) == a.version + Len(a.changes)

\* aggregate.NextEvent: the next event of a is created by writer src, applied
\* and recorded as an uncommitted change.
NextEvent(a, src) ==
    LET evt == Evt(src, a.name, a.id, UncommittedVersion(a) + 1)
    IN [ApplyEvent(a, evt) EXCEPT !.changes = Append(@, evt)]

\* a.FlushChanges(): the uncommitted changes are cleared, and a is at the
\* version of the last of them.
FlushChanges(a) ==
    [a EXCEPT !.version = UncommittedVersion(a), !.changes = <<>>]

\* ------------------------------------------------------------- repository

ErrVersionNotFound == [kind |-> "VersionNotFound"]

\* makeFilter for a query by aggregate name, aggregate id and version
\* constraints: every "$or" of the filter has to hold, and an empty list of
\* constraints adds none.
makeFilter(e, an, ai, min, max) ==
    /\ e.AggregateName = an
    /\ e.AggregateID = ai
    /\ min # {} => \E m \in min : e.AggregateVersion >= m
    /\ max # {} => \E m \in max : e.AggregateVersion <= m

\* Store.Query: entries.Find(makeFilter(q))
Query(ents, an, ai, min, max) ==
    {e \in ents : makeFilter(e, an, ai, min, max)}

\* applySortings with SortAggregateVersion, SortAsc.
RECURSIVE applySortings(_)
applySortings(docs) ==
    IF docs = {} THEN <<>>
    ELSE LET first == CHOOSE e \in docs :
                        \A x \in docs : e.AggregateVersion <= x.AggregateVersion
         IN <<first>> \o applySortings(docs \ {first})

\* repository.fetch: the matching events, ascending by version, are applied
\* to a; nothing is applied when the query fails.
fetch(a, ents, min, max, fails) ==
    LET docs == applySortings(Query(ents, a.name, a.id, min, max))
        events == [k \in 1..Len(docs) |-> eventOf(docs[k])]
    IN IF fails
       THEN [a |-> a, applied |-> <<>>,
             err |-> Wrap("query events",
                          Wrap("query events", Wrap("mongo", MongoErr("find"))))]
       ELSE [a |-> ApplyHistory(a, events), applied |-> events, err |-> NoErr]

\* repository.Fetch
Fetch(a, ents, fails) == fetch(a, ents, {a.version + 1}, {}, fails)

\* FetchVersion without the upper bound of the query.
FetchVersionUnbounded(a, ents, v, fails) ==
    LET w == IF v < 0 THEN 0 ELSE v
        r == fetch(a, ents, {a.version + 1}, {}, fails)
    IN IF r.err # NoErr THEN r
       ELSE IF r.a.version # w THEN [r EXCEPT !.err = ErrVersionNotFound]
       ELSE r

\* FetchVersion that leaves a alone when it returns ErrVersionNotFound.
FetchVersionOrNothing(a, ents, v, fails) ==
    LET w == IF v < 0 THEN 0 ELSE v
        r == fetch(a, ents, {a.version + 1}, {w}, fails)
    IN IF r.err # NoErr THEN r
       ELSE IF r.a.version # w
       THEN [a |-> a, applied |-> <<>>, err |-> ErrVersionNotFound]
       ELSE r

\* repository.FetchVersion
FetchVersion(a, ents, v, fails) ==
    LET w == IF v < 0 THEN 0 ELSE v
        r == fetch(a, ents, {a.version + 1}, {w}, fails)
    IN IF r.err # NoErr THEN r
       ELSE IF r.a.version # w THEN [r EXCEPT !.err = ErrVersionNotFound]
       ELSE r

\* Save that formats the error of Insert into a new one (%v for %w).
SaveOpaque(a, ents, sts, found, fail) ==
    LET r == InsertResult(ents, sts, a.changes, found, fail)
    IN IF r.err # NoErr
       THEN [a |-> a, db |-> r.db,
             err |-> [kind |-> "errorString", msg |-> "insert events"]]
       ELSE [a |-> FlushChanges(a), db |-> r.db, err |-> NoErr]

\* repository.Save
Save(a, ents, sts, found, fail) ==
    LET r == InsertResult(ents, sts, a.changes, found, fail)
    IN IF r.err # NoErr
       THEN [a |-> a, db |-> r.db, err |-> Wrap("insert events", r.err)]
       ELSE [a |-> FlushChanges(a), db |-> r.db, err |-> NoErr]

\* The loop of repository.Delete over the streamed events.
RECURSIVE deleteEvents(_, _)
deleteEvents(ents, docs) ==
    IF docs = {} THEN ents
    ELSE LET d == CHOOSE d \in docs : TRUE
         IN deleteEvents(DeleteOne(ents, eventOf(d).id), docs \ {d})

\* The ways repository.Delete can fail: the query, the Store.Delete of an
\* event, the iteration of the stream.
DeleteFails == {"none", "query", "delete", "stream"}

\* Delete with a query by aggregate name only.
RepositoryDeleteByName(a, ents, done, fail) ==
    IF fail = "none"
    THEN [entries |-> deleteEvents(ents, {e \in ents : e.AggregateName = a.name}),
          err |-> NoErr]
    ELSE [entries |-> deleteEvents(ents, done),
          err |-> Wrap("delete event", MongoErr("delete"))]

\* repository.Delete: the events of a are streamed and deleted one by one;
\* done are the events deleted before the call returns.
RepositoryDelete(a, ents, done, fail) ==
    CASE fail = "query" ->
            [entries |-> ents,
             err |-> Wrap("query events", Wrap("mongo", MongoErr("find")))]
      [] fail = "delete" ->
            [entries |-> deleteEvents(ents, done),
             err |-> Wrap("delete event",
                          Wrap("delete event", MongoErr("delete")))]
      [] fail = "stream" ->
            [entries |-> deleteEvents(ents, done), err |-> Wrap("stream", NoErr)]
      [] fail = "none" ->
            [entries |-> deleteEvents(ents, Query(ents, a.name, a.id, {}, {})),
             err |-> NoErr]

\* The events repository.Delete can have deleted when it returns.
Deleted(a, ents, fail) ==
    LET all == Query(ents, a.name, a.id, {}, {})
    IN CASE fail = "query" -> {{}}
         [] fail = "delete" -> (SUBSET all) \ {all}
         [] fail = "stream" -> SUBSET all
         [] fail = "none" -> {all}

\* No call was made yet.
NoCall == [op |-> "", err |-> NoErr, n |-> 0]

\* ------------------------------------------------------------------ inputs

\* The events src records for aggregate agg: versions s, s+1, ..., s+n-1.
Run(src, ag, s, n) == [k \in 1..n |-> Evt(src, ag[1], ag[2], s + k - 1)]

Other(src) == CHOOSE o \in Sources : o # src

\* What is wrong with a batch: its last event skips a version, repeats the
\* version before it (as another event), comes before the event it should
\* follow, belongs to an aggregate of another name or another id, or has no
\* aggregate; or the batch starts with an event that has no aggregate.
Defects ==
    {"none", "skip", "repeat", "decrease", "otherName", "otherID",
     "plainLast", "plainFirst"}

\* A batch of n events of aggregate X from version s on, with defect d.
Batch(src, s, n, d) ==
    LET run == Run(src, AggX, s, n)
        front == SubSeq(run, 1, n - 1)
    IN CASE d = "none" -> run
         [] d = "skip" -> Append(front, Evt(src, AggX[1], AggX[2], s + n))
         [] d = "repeat" ->
                Append(front, Evt(Other(src), AggX[1], AggX[2], s + n - 2))
         [] d = "decrease" ->
                SubSeq(run, 1, n - 2) \o <<run[n], run[n - 1]>>
         [] d = "otherName" -> Append(front, Evt(src, AggY[1], AggY[2], 1))
         [] d = "otherID" -> Append(front, Evt(src, AggZ[1], AggZ[2], 1))
         [] d = "plainLast" -> Append(front, PlainEvt(src))
         [] d = "plainFirst" -> <<PlainEvt(src)>> \o front

\* The batches handed to Insert: no event, one event without aggregate, the
\* first event of Y or of Z, the runs of X, single events of X by the second
\* writer, and the runs of X with a defect.
Batches ==
    {<<>>, <<PlainEvt("w1")>>, Run("w1", AggY, 1, 1), Run("w1", AggZ, 1, 1)}
        \cup {Batch("w1", s, n, "none") :
                s \in 1..MaxVersion, n \in 1..MaxBatch}
        \cup {Batch("w2", s, 1, "none") : s \in 1..MaxVersion}
        \cup {Batch("w1", s, n, d) :
                s \in 1..MaxVersion, n \in 2..MaxBatch, d \in Defects}

\* Batches keep to the versions of the pool.
InPool(events) ==
    \A k \in 1..Len(events) : events[k].aggregateVersion <= MaxVersion

\* ------------------------------------------------------------------ calls

\* The callers of TxSpec, and the writer each one is.
Procs == {"p1", "p2"}
Writer(p) == IF p = "p1" THEN "w1" ELSE "w2"

\* No Use call and no projection job is running.
JobIdle ==
    /\ use = [pc |-> "idle"]
    /\ cache = [pc |-> "idle"]
    /\ runs = [pc |-> "idle"]
    /\ job = [pc |-> "idle"]
    /\ pipe = [pc |-> "idle"]
    /\ sub = [pc |-> "idle"]
    /\ bus = [pc |-> "idle"]
    /\ locks = [pc |-> "idle"]
    /\ filt = [pc |-> "idle"]
    /\ app = [pc |-> "idle"]

\* A session that has not started its call.
Idle ==
    [pc |-> "idle", events |-> <<>>, found |-> NoDocument, st |-> ZeroState,
     snap |-> EmptyBag, k |-> 0, wEntries |-> {}, wrote |-> FALSE,
     fault |-> FALSE, err |-> NoErr]

Init ==
    /\ entries = {}
    /\ states = EmptyBag
    /\ tx = [p \in Procs |-> Idle]
    /\ agg = newMockAggregate(AggX)
    /\ call = NoCall
    /\ JobIdle

\* Store.Insert(ctx, events...) by a single caller.
Insert(events, found, fail) ==
    LET r == InsertResult(entries, states, events, found, fail)
    IN /\ entries' = r.db.entries
       /\ states' = r.db.states
       /\ UNCHANGED <<jobVars, tx, agg, call>>

\* Store.Delete(ctx, evt)
Delete(evt) ==
    /\ entries' = DeleteOne(entries, evt.id)
    /\ UNCHANGED <<jobVars, states, tx, agg, call>>

Next ==
    \/ \E events \in Batches :
       \E found \in FindOne(states, FirstName(events), FirstID(events)) :
       \E fail \in Fails(events) :
          /\ InPool(events)
          /\ Reaches(entries, events, found, fail)
          /\ Insert(events, found, fail)
    \/ \E e \in entries : Delete(eventOf(e))

Spec == Init /\ [][Next]_vars

\* ------------------------------------------------- concurrent Insert calls

\* The store after the versions 1..k of X were inserted one by one.
RECURSIVE Seed(_)
Seed(k) ==
    IF k = 0 THEN [entries |-> {}, states |-> EmptyBag]
    ELSE LET prev == Seed(k - 1)
             found == CHOOSE d \in FindOne(prev.states, AggX[1], AggX[2]) : TRUE
         IN InsertResult(prev.entries, prev.states, Run("w1", AggX, k, 1),
                         found, NoFail).db

TxInit ==
    /\ \E k \in 0..(MaxVersion - 1) :
          /\ entries = Seed(k).entries
          /\ states = Seed(k).states
    /\ tx = [p \in Procs |-> Idle]
    /\ agg = newMockAggregate(AggX)
    /\ call = NoCall
    /\ JobIdle

\* What a caller inserts: a run of X of its own events, one event without
\* aggregate, or nothing.
TxBatches(p) ==
    {<<>>, <<PlainEvt(Writer(p))>>}
        \cup {Batch(Writer(p), s, n, "none") :
                s \in 1..MaxVersion, n \in 1..MaxBatch}

\* The documents other open transactions have inserted and not committed.
Uncommitted(p) ==
    UNION {tx[q].wEntries : q \in {q \in Procs : q # p /\ tx[q].pc # "done"}}

\* Another transaction replaced (committed since the snapshot of p, or holds
\* uncommitted) the state document p is about to replace.
WriteConflict(p) ==
    LET old == tx[p].found
    IN /\ old # NoDocument
       /\ \/ CopiesIn(old, states) < CopiesIn(old, tx[p].snap)
          \/ \E q \in Procs :
                q # p /\ tx[q].pc = "commit" /\ tx[q].wrote /\ tx[q].found = old

\* The call of p ends with err; its transaction, if open, is dropped. fault
\* tells that the backend failed the call.
Return(p, err, fault) ==
    tx' = [tx EXCEPT ![p].pc = "done", ![p].err = err, ![p].wEntries = {},
                     ![p].wrote = FALSE, ![p].fault = fault]

\* Insert is called: connectOnce, UseSession, StartTransaction.
TxBegin(p, events) ==
    /\ tx[p].pc = "idle"
    /\ tx' = [tx EXCEPT ![p].pc = "validate", ![p].events = events]
    /\ UNCHANGED <<jobVars, entries, states, agg, call>>

\* validateVersion: the first read of the transaction fixes its snapshot.
TxValidate(p, found, decodeFails) ==
    LET v == validateVersion(found, tx[p].events, decodeFails)
    IN /\ tx[p].pc = "validate"
       /\ IF v.err # NoErr
          THEN tx' = [tx EXCEPT ![p].pc = "done", ![p].found = found,
                                ![p].fault = decodeFails,
                                ![p].err = Wrap("validate version", v.err)]
          ELSE tx' = [tx EXCEPT
                        ![p].pc = IF Len(tx[p].events) = 0 THEN "update"
                                  ELSE "insert",
                        ![p].found = found, ![p].st = v.st,
                        ![p].snap = states, ![p].k = 1]
       /\ UNCHANGED <<jobVars, entries, states, agg, call>>

\* One round of the loop over the events: the unique indexes hold against
\* the committed documents and against the uncommitted ones of every open
\* transaction (the server answers a write conflict for the latter).
TxInsert(p, fails) ==
    LET k == tx[p].k
        seen == entries \cup tx[p].wEntries \cup Uncommitted(p)
        r == insert(seen, tx[p].events[k], fails)
    IN /\ tx[p].pc = "insert"
       /\ IF r.err # NoErr
          THEN Return(p, AbortedErr("insert", r.err), fails)
          ELSE tx' = [tx EXCEPT
                        ![p].wEntries = @ \cup {entryOf(tx[p].events[k])},
                        ![p].k = k + 1,
                        ![p].pc = IF k = Len(tx[p].events) THEN "update"
                                  ELSE "insert"]
       /\ UNCHANGED <<jobVars, entries, states, agg, call>>

\* updateState inside the transaction.
TxUpdate(p, fails) ==
    LET u == updateState(tx[p].snap, tx[p].found, tx[p].st, tx[p].events, fails)
        writes == u.states # tx[p].snap
    IN /\ tx[p].pc = "update"
       /\ IF u.err # NoErr
          THEN Return(p, AbortedErr("update state", u.err), TRUE)
          ELSE IF writes /\ WriteConflict(p)
          THEN Return(p, AbortedErr("update state",
                                    Wrap("mongo", MongoErr("write conflict"))),
                      FALSE)
          ELSE tx' = [tx EXCEPT ![p].pc = "commit", ![p].wrote = writes]
       /\ UNCHANGED <<jobVars, entries, states, agg, call>>

\* CommitTransaction, or its failure.
TxCommit(p, fails) ==
    LET db == [entries |-> entries, states |-> states]
        written ==
            [entries |-> entries \cup tx[p].wEntries,
             states |-> updateState(states, tx[p].found, tx[p].st,
                                    tx[p].events, FALSE).states]
        after == IF fails THEN AbortTransaction(db, written)
                 ELSE CommitTransaction(db, written)
    IN /\ tx[p].pc = "commit"
       /\ entries' = after.entries
       /\ states' = after.states
       /\ Return(p,
                 IF fails THEN Wrap("commit transaction", MongoErr("commit"))
                 ELSE NoErr,
                 fails)
       /\ UNCHANGED <<jobVars, agg, call>>

TxNext ==
    \E p \in Procs :
        \/ \E events \in TxBatches(p) : InPool(events) /\ TxBegin(p, events)
        \/ \E found \in FindOne(states, FirstName(tx[p].events),
                                FirstID(tx[p].events)) :
           \E decodeFails \in BOOLEAN :
              /\ decodeFails => FirstName(tx[p].events) # ""
              /\ TxValidate(p, found, decodeFails)
        \/ \E fails \in BOOLEAN : TxInsert(p, fails)
        \/ \E fails \in BOOLEAN :
              /\ fails => tx[p].st.AggregateName # "" /\ Len(tx[p].events) > 0
              /\ TxUpdate(p, fails)
        \/ \E fails \in BOOLEAN : TxCommit(p, fails)

TxSpec == TxInit /\ [][TxNext]_vars

\* ------------------------------------------- the repository and its callers

\* The batches another writer inserts while the aggregate is in use: the
\* first event of Z, the last event of X, the last event of X behind an event
\* without aggregate.
OtherBatches ==
    {Run("w1", AggZ, 1, 1), Batch("w1", MaxVersion, 1, "none"),
     Batch("w1", MaxVersion, 2, "plainFirst")}

\* The versions a caller asks FetchVersion for.
Versions == (-1)..(MaxVersion + 1)

\* newMockAggregate(id): the caller starts over with a fresh aggregate.
RepoNew ==
    /\ agg' = newMockAggregate(AggX)
    /\ call' = [op |-> "New", err |-> NoErr, n |-> 0]
    /\ UNCHANGED <<jobVars, entries, states, tx>>

\* newMockEvent(a, foo)
RepoNextEvent ==
    /\ UncommittedVersion(agg) < MaxVersion
    /\ agg' = NextEvent(agg, "w2")
    /\ call' = [op |-> "NextEvent", err |-> NoErr, n |-> 0]
    /\ UNCHANGED <<jobVars, entries, states, tx>>

\* repo.Save(ctx, a)
RepoSave(found, fail) ==
    LET r == Save(agg, entries, states, found, fail)
    IN /\ agg' = r.a
       /\ entries' = r.db.entries
       /\ states' = r.db.states
       /\ call' = [op |-> "Save", err |-> r.err, n |-> Len(agg.changes)]
       /\ UNCHANGED <<jobVars, tx>>

\* repo.Fetch(ctx, a), into an aggregate without uncommitted changes (the
\* caller fetches, then records changes, then saves).
RepoFetch(fails) ==
    LET r == Fetch(agg, entries, fails)
    IN /\ Len(agg.changes) = 0
       /\ agg' = r.a
       /\ call' = [op |-> "Fetch", err |-> r.err, n |-> Len(r.applied)]
       /\ UNCHANGED <<jobVars, entries, states, tx>>

\* repo.FetchVersion(ctx, a, v), into an aggregate without uncommitted
\* changes.
RepoFetchVersion(v, fails) ==
    LET r == FetchVersion(agg, entries, v, fails)
    IN /\ Len(agg.changes) = 0
       /\ agg' = r.a
       /\ call' = [op |-> "FetchVersion", err |-> r.err,
                   n |-> Len(r.applied)]
       /\ UNCHANGED <<jobVars, entries, states, tx>>

\* repo.Delete(ctx, a)
RepoDelete(done, fail) ==
    LET r == RepositoryDelete(agg, entries, done, fail)
    IN /\ entries' = r.entries
       /\ call' = [op |-> "Delete", err |-> r.err,
                   n |-> Cardinality(entries) - Cardinality(r.entries)]
       /\ UNCHANGED <<jobVars, states, tx, agg>>

\* store.Insert(ctx, events...) by the other writer.
RepoInsert(events, found) ==
    LET r == InsertResult(entries, states, events, found, NoFail)
    IN /\ entries' = r.db.entries
       /\ states' = r.db.states
       /\ call' = [op |-> "Insert", err |-> r.err, n |-> Len(events)]
       /\ UNCHANGED <<jobVars, tx, agg>>

RepoNext ==
    \/ RepoNew
    \/ RepoNextEvent
    \/ \E found \in FindOne(states, FirstName(agg.changes), FirstID(agg.changes)) :
       \E fail \in Fails(agg.changes) :
          /\ Reaches(entries, agg.changes, found, fail)
          /\ RepoSave(found, fail)
    \/ \E fails \in BOOLEAN : RepoFetch(fails)
    \/ \E v \in Versions : \E fails \in BOOLEAN : RepoFetchVersion(v, fails)
    \/ \E fail \in DeleteFails : \E done \in Deleted(agg, entries, fail) :
          RepoDelete(done, fail)
    \/ \E events \in OtherBatches :
       \E found \in FindOne(states, FirstName(events), FirstID(events)) :
          InPool(events) /\ RepoInsert(events, found)

RepoSpec == Init /\ [][RepoNext]_vars

\* ------------------------------------------------------------ vocabulary

\* The event carries an aggregate-triple.
Named(evt) == evt.aggregateName # "" /\ evt.aggregateID # NilID

AggOf(evt) == <<evt.aggregateName, evt.aggregateID>>

\* All events of the batch belong to one aggregate (or all to none).
SameAggregate(events) ==
    \A i, j \in 1..Len(events) : AggOf(events[i]) = AggOf(events[j])

AllNamed(events) == \A k \in 1..Len(events) : Named(events[k])

\* The versions of the batch are cur+1, cur+2, ...
Contiguous(events, cur) ==
    \A k \in 1..Len(events) : events[k].aggregateVersion = cur + k

\* The currentVersion a state document records; 0 without a document.
CurrentVersion(d) == IF d = NoDocument THEN 0 ELSE d.Version

StoredVersions(ents, ag) ==
    {e.AggregateVersion :
        e \in {x \in ents : x.AggregateName = ag[1] /\ x.AggregateID = ag[2]}}

SetMax(S) == IF S = {} THEN 0 ELSE CHOOSE m \in S : \A x \in S : x <= m

\* The stored versions of agg are 1..currentVersion.
Dense(ents, sts, ag) ==
    \A d \in FindOne(sts, ag[1], ag[2]) :
        StoredVersions(ents, ag) = 1..CurrentVersion(d)

\* The state record of ag moved to a higher version.
Advanced(before, after, ag) ==
    \A d \in FindOne(before, ag[1], ag[2]) :
        \A e \in FindOne(after, ag[1], ag[2]) :
            CurrentVersion(e) > CurrentVersion(d)

\* The calls of Insert a single caller can make in the current state.
InsertCalls ==
    {c \in [events : {b \in Batches : InPool(b)},
            found : BagToSet(states) \cup {NoDocument}] :
        c.found \in FindOne(states, FirstName(c.events), FirstID(c.events))}

StoreNow == [entries |-> entries, states |-> states]

Outcome(c, fail) == InsertResult(entries, states, c.events, c.found, fail)

\* ------------------------------------------------------------------ claims

\* C1: Insert accepts a batch of events of one aggregate only if its
\* versions are currentVersion+1, currentVersion+2, ...; any other such batch
\* is rejected with a VersionError; hence the stored versions of an aggregate
\* stay 1..currentVersion over every accepted Insert.
C1_AcceptsOnlyNextVersions ==
    \A c \in InsertCalls :
        (Len(c.events) > 0 /\ AllNamed(c.events) /\ SameAggregate(c.events)) =>
            LET r == Outcome(c, NoFail)
                cur == CurrentVersion(c.found)
                ag == AggOf(c.events[1])
            IN /\ r.err = NoErr => Contiguous(c.events, cur)
               /\ ~Contiguous(c.events, cur) => IsVersionError(r.err)
               /\ (r.err = NoErr /\ Dense(entries, states, ag))
                     => Dense(r.db.entries, r.db.states, ag)

\* C3: Insert is all-or-nothing at every failure point: all events of the
\* batch are stored and the state record of their aggregate has advanced, or
\* the call failed and the store is as it was.
C3_AllOrNothing ==
    \A c \in InsertCalls : \A fail \in Fails(c.events) :
        Reaches(entries, c.events, c.found, fail) =>
            LET r == Outcome(c, fail)
            IN \/ /\ r.err = NoErr
                  /\ \A k \in 1..Len(c.events) :
                        /\ entryOf(c.events[k]) \in r.db.entries
                        /\ Named(c.events[k]) =>
                              Advanced(states, r.db.states, AggOf(c.events[k]))
               \/ /\ r.err # NoErr
                  /\ r.db = StoreNow

\* C4: the currentVersion of every aggregate's state record is the highest
\* stored version of the aggregate, and 0 when it has no stored event.
C4_CurrentVersionIsMax ==
    \A ag \in Aggregates : \A d \in FindOne(states, ag[1], ag[2]) :
        CurrentVersion(d) = SetMax(StoredVersions(entries, ag))

\* C5: a batch in which some event carries an aggregate-triple and not all
\* events belong to the same aggregate is rejected and changes nothing.
C5_MixedBatchRejected ==
    \A c \in InsertCalls :
        ((\E k \in 1..Len(c.events) : Named(c.events[k]))
            /\ ~SameAggregate(c.events)) =>
            LET r == Outcome(c, NoFail)
            IN r.err # NoErr /\ r.db = StoreNow

\* C6: with currentVersion n >= 1, an Insert whose first event has a version
\* <= n fails with a VersionError that carries the aggregate's name and id,
\* currentVersion n and the first event, and the store is left as it was.
C6_VersionConflictReported ==
    \A c \in InsertCalls : \A fail \in Fails(c.events) \ {[at |-> "find", k |-> 0]} :
        (/\ Len(c.events) > 0
         /\ Named(c.events[1])
         /\ CurrentVersion(c.found) >= 1
         /\ c.events[1].aggregateVersion <= CurrentVersion(c.found)) =>
            LET r == Outcome(c, fail)
            IN /\ IsVersionError(r.err)
               /\ Cause(r.err) =
                     NewVersionError(c.events[1].aggregateName,
                                     c.events[1].aggregateID,
                                     CurrentVersion(c.found), c.events[1])
               /\ r.db = StoreNow

\* C6 happens: versions 1..MaxVersion of X are stored, and the insert of
\* another event of version MaxVersion has just been refused with
\* currentVersion MaxVersion.
C6_Witness ==
    /\ call.op = "Insert"
    /\ IsVersionError(call.err)
    /\ Cause(call.err).CurrentVersion = MaxVersion
    /\ Cause(call.err).Event = Evt("w1", AggX[1], AggX[2], MaxVersion)
    /\ StoredVersions(entries, AggX) = 1..MaxVersion
    /\ entryOf(Evt("w1", AggX[1], AggX[2], MaxVersion)) \notin entries

\* C2: of two concurrent Insert calls on one aggregate that read the same
\* currentVersion and both begin at currentVersion+1, exactly one succeeds,
\* the other fails with a VersionError, and the store holds the winner's
\* events and not the loser's (backend failures aside).

C2_ExactlyOneWins ==
    LET a == tx["p1"]
        b == tx["p2"]
        stored(t) == \A k \in 1..Len(t.events) : entryOf(t.events[k]) \in entries
        absent(t) == \A k \in 1..Len(t.events) : entryOf(t.events[k]) \notin entries
    IN (/\ a.pc = "done" /\ b.pc = "done"
        /\ Len(a.events) > 0 /\ Len(b.events) > 0
        /\ AllNamed(a.events) /\ AllNamed(b.events)
        /\ a.found = b.found
        /\ Contiguous(a.events, CurrentVersion(a.found))
        /\ Contiguous(b.events, CurrentVersion(b.found))
        /\ ~a.fault /\ ~b.fault) =>
           \/ a.err = NoErr /\ IsVersionError(b.err) /\ stored(a) /\ absent(b)
           \/ b.err = NoErr /\ IsVersionError(a.err) /\ stored(b) /\ absent(a)

\* The events of a that the store holds.
EventsOf(ents, a) == Query(ents, a.name, a.id, {}, {})

\* C7: for an aggregate whose uncommitted changes have the versions 1..n,
\* after Save succeeds a Fetch into a fresh aggregate of the same name and id
\* applies exactly those n events in ascending order and leaves it at version
\* n with the same folded state.
C7_SaveFetchRoundTrip ==
    \A found \in FindOne(states, agg.name, agg.id) :
        (/\ agg.version = 0
         /\ Len(agg.changes) >= 1
         /\ Contiguous(agg.changes, 0)
         /\ agg.Foo = ApplyHistory(newMockAggregate(<<agg.name, agg.id>>),
                                   agg.changes).Foo) =>
            LET s == Save(agg, entries, states, found, NoFail)
                f == Fetch(newMockAggregate(<<agg.name, agg.id>>),
                           s.db.entries, FALSE)
            IN s.err = NoErr =>
                  /\ f.err = NoErr
                  /\ f.applied = agg.changes
                  /\ f.a.version = Len(agg.changes)
                  /\ f.a.Foo = agg.Foo

\* C8: Save inserts exactly the uncommitted changes of the aggregate; when
\* the Insert succeeds the changes are cleared; when it fails the aggregate
\* and the store are as they were, and a version conflict of the store is
\* still recognised as a VersionError through the wrapping.
C8_SaveInsertsChanges ==
    \A found \in FindOne(states, FirstName(agg.changes), FirstID(agg.changes)) :
    \A fail \in Fails(agg.changes) :
        Reaches(entries, agg.changes, found, fail) =>
            LET r == Save(agg, entries, states, found, fail)
            IN /\ r.err = NoErr =>
                    /\ r.a.changes = <<>>
                    /\ r.db.entries = entries \cup
                          {entryOf(agg.changes[k]) : k \in 1..Len(agg.changes)}
               /\ r.err # NoErr =>
                    /\ r.a = agg
                    /\ r.db = StoreNow
               /\ (/\ Len(agg.changes) > 0
                   /\ fail.at # "find"
                   /\ CurrentVersion(found) >= agg.changes[1].aggregateVersion) =>
                    /\ IsVersionError(r.err)
                    /\ r.err # Cause(r.err)
                    /\ Cause(r.err).CurrentVersion = CurrentVersion(found)
                    /\ Cause(r.err).Event = agg.changes[1]

\* C8 happens: after an earlier Save stored events of the aggregate, a Save
\* has just failed with a wrapped VersionError and the changes are still
\* uncommitted.
C8_Witness ==
    /\ call.op = "Save"
    /\ IsVersionError(call.err)
    /\ call.err.kind = "wrapped"
    /\ call.n >= 1
    /\ Len(agg.changes) = call.n
    /\ \E e \in EventsOf(entries, agg) : e.ID[1] = "w2"

\* C9: FetchVersion(a, v) applies to a exactly the stored events of a with a
\* version in [a.version+1, v], in ascending order; it returns nil iff a is
\* at version v afterwards and ErrVersionNotFound otherwise; a negative v is
\* treated as 0.
C9_FetchVersion ==
    \A v \in Versions :
        LET w == IF v < 0 THEN 0 ELSE v
            r == FetchVersion(agg, entries, v, FALSE)
            n == Len(r.applied)
        IN /\ {entryOf(r.applied[k]) : k \in 1..n} =
                 {e \in EventsOf(entries, agg) :
                     e.AggregateVersion \in (agg.version + 1)..w}
           /\ \A i, j \in 1..n :
                 i < j => r.applied[i].aggregateVersion
                             < r.applied[j].aggregateVersion
           /\ r.a = ApplyHistory(agg, r.applied)
           /\ r.err = NoErr <=> r.a.version = w
           /\ r.err # NoErr => r.err = ErrVersionNotFound
           /\ v < 0 => r = FetchVersion(agg, entries, 0, FALSE)

\* C9 happens: FetchVersion has just applied two or more events and returned
\* nil, and the store holds a later event of the aggregate that it left out.
C9_Witness ==
    /\ call.op = "FetchVersion"
    /\ call.err = NoErr
    /\ call.n >= 2
    /\ \E e \in EventsOf(entries, agg) : e.AggregateVersion > agg.version

\* C10: after Delete(a) returns nil no event of a remains in the store, the
\* events of other aggregates are untouched, and a Fetch into a fresh
\* aggregate of the same name and id applies nothing: version 0, zero state.
C10_DeleteRemovesAggregate ==
    \A fail \in DeleteFails : \A done \in Deleted(agg, entries, fail) :
        LET r == RepositoryDelete(agg, entries, done, fail)
            f == Fetch(newMockAggregate(<<agg.name, agg.id>>), r.entries, FALSE)
        IN r.err = NoErr =>
              /\ EventsOf(r.entries, agg) = {}
              /\ r.entries \ EventsOf(r.entries, agg)
                    = entries \ EventsOf(entries, agg)
              /\ f.err = NoErr
              /\ f.applied = <<>>
              /\ f.a = newMockAggregate(<<agg.name, agg.id>>)

\* C10 happens: Delete has just removed two or more events and returned nil,
\* no event of the aggregate is left, and an event of another aggregate is
\* still stored.
C10_Witness ==
    /\ call.op = "Delete"
    /\ call.err = NoErr
    /\ call.n >= 2
    /\ EventsOf(entries, agg) = {}
    /\ entryOf(Evt("w1", AggZ[1], AggZ[2], 1)) \in entries

\* --------------------------------------------------------- repository.Use

\* The retryer of the repository test: RetryEvery(50 * time.Millisecond, 4).
Interval == 50
MaxTries == 4

\* The test takes a Use call of four attempts to last 150 to 250 ms.
MinDuration == 150
MaxDuration == 250

\* The time in ms the store may take for one attempt: the test leaves the
\* attempts of one call MaxDuration - MinDuration in total.
Latencies == {0, (MaxDuration - MinDuration) \div MaxTries}

\* aggregate.IsConsistencyError: the error, or an error it wraps, tells a
\* version conflict.
IsConsistencyError(err) == Cause(err).kind = "VersionError"

\* RetryEvery(interval, maxTries): the n-th attempt is followed by another
\* as long as n < maxTries.
RetryEvery(n) == n < MaxTries

\* a.RecordChange(evt): evt becomes an uncommitted change; it is not applied.
RecordChange(a, evt) == [a EXCEPT !.changes = Append(@, evt)]

\* n events recorded by aggregate.Next.
RECURSIVE Recorded(_, _)
Recorded(a, n) == IF n = 0 THEN a ELSE NextEvent(Recorded(a, n - 1), "w1")

\* The aggregate and the store after n events were recorded and saved.
Saved(n) ==
    Save(Recorded(newMockAggregate(AggX), n), {}, EmptyBag, NoDocument, NoFail)

\* r.Use(ctx, a, fn) has been called.
UseCalled ==
    [pc |-> "fetch", tries |-> 0, again |-> 0, waits |-> 0, clock |-> 0,
     conflicts |-> 0, fault |-> FALSE, err |-> NoErr]

UseInit ==
    /\ \E n \in 1..MaxVersion :
          /\ entries = Saved(n).db.entries
          /\ states = Saved(n).db.states
          /\ agg = Saved(n).a
    /\ tx = [p \in Procs |-> Idle]
    /\ call = NoCall
    /\ use = UseCalled
    /\ cache = [pc |-> "idle"]
    /\ runs = [pc |-> "idle"]
    /\ job = [pc |-> "idle"]
    /\ pipe = [pc |-> "idle"]
    /\ sub = [pc |-> "idle"]
    /\ bus = [pc |-> "idle"]
    /\ locks = [pc |-> "idle"]
    /\ filt = [pc |-> "idle"]
    /\ app = [pc |-> "idle"]

\* Use returns err.
UseReturn(err, fault) ==
    use' = [use EXCEPT !.pc = "done", !.err = err, !.fault = fault]

\* An attempt begins: r.Fetch(ctx, a).
UseFetch(fails) ==
    LET r == Fetch(agg, entries, fails)
    IN /\ use.pc = "fetch"
       /\ agg' = r.a
       /\ IF r.err # NoErr
          THEN UseReturn(Wrap("fetch aggregate", r.err), TRUE)
          ELSE use' = [use EXCEPT !.pc = "body"]
       /\ UNCHANGED <<entries, states, tx, call, cache, runs, job, pipe, sub, bus, locks, filt, app>>

\* fn() runs: it records the last stored event again (as the test does), or
\* the next event of the aggregate.
UseBody(again) ==
    /\ use.pc = "body"
    /\ IF again
       THEN /\ agg.version >= 1
            /\ agg' = RecordChange(agg, Evt("w1", agg.name, agg.id, agg.version))
       ELSE /\ UncommittedVersion(agg) < MaxVersion
            /\ agg' = NextEvent(agg, "w2")
    /\ use' = [use EXCEPT !.pc = "save", !.tries = @ + 1,
                           !.again = IF again THEN @ + 1 ELSE @]
    /\ UNCHANGED <<entries, states, tx, call, cache, runs, job, pipe, sub, bus, locks, filt, app>>

\* r.Save(ctx, a) ends the attempt after d ms: Use returns nil, returns the
\* error IsRetryable refuses, or goes on to ask its trigger.
UseSave(found, fail, d) ==
    LET r == Save(agg, entries, states, found, fail)
        err == Wrap("save aggregate", r.err)
    IN /\ use.pc = "save"
       /\ agg' = r.a
       /\ entries' = r.db.entries
       /\ states' = r.db.states
       /\ IF r.err = NoErr
          THEN use' = [use EXCEPT !.pc = "done", !.clock = @ + d]
          ELSE IF IsConsistencyError(err)
          THEN use' = [use EXCEPT !.pc = "wait", !.clock = @ + d, !.err = err,
                                  !.conflicts = @ + 1]
          ELSE use' = [use EXCEPT !.pc = "done", !.clock = @ + d, !.err = err,
                                  !.fault = fail.at # "none"]
       /\ UNCHANGED <<tx, call, cache, runs, job, pipe, sub, bus, locks, filt, app>>

\* The trigger: after Interval the next attempt starts from a reconstructed
\* aggregate, or the attempts are used up and Use returns the last error.
UseWait ==
    /\ use.pc = "wait"
    /\ IF RetryEvery(use.tries)
       THEN /\ use' = [use EXCEPT !.pc = "fetch", !.waits = @ + 1,
                                  !.clock = @ + Interval]
            /\ agg' = newMockAggregate(<<agg.name, agg.id>>)
       ELSE /\ use' = [use EXCEPT !.pc = "done"]
            /\ agg' = agg
    /\ UNCHANGED <<entries, states, tx, call, cache, runs, job, pipe, sub, bus, locks, filt, app>>

\* Another writer inserts the next event of the aggregate while Use runs.
UseOther(found) ==
    LET events == Run("w1", AggX, CurrentVersion(found) + 1, 1)
        r == InsertResult(entries, states, events, found, NoFail)
    IN /\ use.pc \in {"body", "save"}
       /\ InPool(events)
       /\ entries' = r.db.entries
       /\ states' = r.db.states
       /\ UNCHANGED <<tx, agg, call, jobVars>>

UseNext ==
    \/ \E fails \in BOOLEAN : UseFetch(fails)
    \/ \E again \in BOOLEAN : UseBody(again)
    \/ \E found \in FindOne(states, FirstName(agg.changes), FirstID(agg.changes)) :
       \E fail \in Fails(agg.changes) : \E d \in Latencies :
          /\ Reaches(entries, agg.changes, found, fail)
          /\ UseSave(found, fail, d)
    \/ UseWait
    \/ \E found \in FindOne(states, AggX[1], AggX[2]) : UseOther(found)

UseSpec == UseInit /\ [][UseNext]_vars

MaxStored == 2

\* Most calls of store.Query one job is followed through.
MaxQueries == 3

\* The goroutines that call run with one and the same query.
Callers == {"r1", "r2"}

\* The result of store.Query when the store holds its first n events: the
\* events in the order of the query's sortings, named by their position.
QueryResult(n) == [k \in 1..n |-> k]

\* c.cache[hash] without an entry.
NoEntry == [ok |-> FALSE, events |-> <<>>]

\* A goroutine that is not inside run and holds no stream.
NotRunning ==
    [pc |-> "idle", canceled |-> FALSE, result |-> <<>>, pos |-> 0,
     closed |-> FALSE, hit |-> FALSE]

\* newQueryCache(store), with a store of one event.
CacheInit ==
    /\ cache = [stored |-> 1, queries |-> 0, mux |-> "", entry |-> NoEntry,
                source |-> <<>>, first |-> NoEntry, writer |-> "",
                clean |-> TRUE, fatal |-> FALSE]
    /\ runs = [c \in Callers |-> NotRunning]
    /\ entries = {}
    /\ states = EmptyBag
    /\ tx = [p \in Procs |-> Idle]
    /\ agg = newMockAggregate(AggX)
    /\ call = NoCall
    /\ use = [pc |-> "idle"]
    /\ job = [pc |-> "idle"]
    /\ pipe = [pc |-> "idle"]
    /\ sub = [pc |-> "idle"]
    /\ bus = [pc |-> "idle"]
    /\ locks = [pc |-> "idle"]
    /\ filt = [pc |-> "idle"]
    /\ app = [pc |-> "idle"]

\* The goroutine c is at pc, and the process has not died.
At(c, pc) == ~cache.fatal /\ runs[c].pc = pc

\* The events the consumer of c's stream has received.
Observed(c) == SubSeq(runs[c].result, 1, runs[c].pos)

\* eventStream(ctx, events) is returned to c: events is c's own copy of the
\* cached slice.
Replay(c, events) ==
    [runs[c] EXCEPT !.pc = "replay", !.result = events, !.pos = 0,
                    !.hit = TRUE]

\* run(ctx, q) is called.
run(c) ==
    /\ At(c, "idle")
    /\ runs' = [runs EXCEPT ![c].pc = "cached"]
    /\ UNCHANGED <<entries, states, tx, agg, call, use, cache, job, pipe, sub, bus, locks, filt, app>>

\* c.cached(hash, true): the read under cacheMux.RLock waits for a writer.
cached(c) ==
    /\ At(c, "cached")
    /\ cache.writer = ""
    /\ runs' = [runs EXCEPT ![c] = IF cache.entry.ok
                                   THEN Replay(c, cache.entry.events)
                                   ELSE [@ EXCEPT !.pc = "lock"]]
    /\ UNCHANGED <<entries, states, tx, agg, call, use, cache, job, pipe, sub, bus, locks, filt, app>>

\* c.acquireQueryLock(hash): mux.Lock()
acquireQueryLock(c) ==
    /\ At(c, "lock")
    /\ cache.mux = ""
    /\ cache' = [cache EXCEPT !.mux = c]
    /\ runs' = [runs EXCEPT ![c].pc = "recheck"]
    /\ UNCHANGED <<entries, states, tx, agg, call, use, job, pipe, sub, bus, locks, filt, app>>

\* c.cached(hash, false): the map is read without cacheMux. While update
\* writes the map the read races with the write: it sees the map before the
\* write or after it, or the runtime ends the process (concurrent map read
\* and map write). On a hit run returns, which unlocks the query lock.
cachedUnlocked(c, seen) ==
    LET found == IF seen = "new"
                 THEN [ok |-> TRUE, events |-> Observed(cache.writer)]
                 ELSE cache.entry
    IN /\ At(c, "recheck")
       /\ seen # "old" => cache.writer # ""
       /\ IF seen = "fatal"
          THEN /\ cache' = [cache EXCEPT !.fatal = TRUE]
               /\ runs' = runs
          ELSE IF found.ok
          THEN /\ cache' = [cache EXCEPT !.mux = ""]
               /\ runs' = [runs EXCEPT ![c] = Replay(c, found.events)]
          ELSE /\ cache' = cache
               /\ runs' = [runs EXCEPT ![c].pc = "query"]
       /\ UNCHANGED <<entries, states, tx, agg, call, use, job, pipe, sub, bus, locks, filt, app>>

\* c.store.Query(ctx, q) and the return of run, which unlocks the query
\* lock: with the error of the store, or with the stream of intercept.
storeQuery(c, fails) ==
    /\ At(c, "query")
    /\ cache.queries < MaxQueries
    /\ cache' = [cache EXCEPT !.queries = @ + 1, !.mux = "",
                              !.clean = @ /\ ~fails]
    /\ runs' = [runs EXCEPT ![c] =
                  IF fails THEN [@ EXCEPT !.pc = "done"]
                  ELSE [@ EXCEPT !.pc = "stream",
                                 !.result = QueryResult(cache.stored),
                                 !.pos = 0, !.closed = FALSE]]
    /\ UNCHANGED <<entries, states, tx, agg, call, use, job, pipe, sub, bus, locks, filt, app>>

\* One round of intercept's loop: the store sends an event, intercept
\* receives it, sends it to the consumer and appends it to events.
storeSend(c) ==
    /\ At(c, "stream")
    /\ ~runs[c].closed
    /\ runs[c].pos < Len(runs[c].result)
    /\ runs' = [runs EXCEPT ![c].pos = @ + 1]
    /\ UNCHANGED <<entries, states, tx, agg, call, use, cache, job, pipe, sub, bus, locks, filt, app>>

\* The store closes its stream: after the last event, or when its context
\* is canceled.
storeClose(c) ==
    /\ At(c, "stream")
    /\ ~runs[c].closed
    /\ runs[c].pos = Len(runs[c].result) \/ runs[c].canceled
    /\ runs' = [runs EXCEPT ![c].closed = TRUE]
    /\ UNCHANGED <<entries, states, tx, agg, call, use, cache, job, pipe, sub, bus, locks, filt, app>>

\* intercept: case <-ctx.Done(): return
interceptDone(c) ==
    /\ At(c, "stream")
    /\ runs[c].canceled
    /\ runs' = [runs EXCEPT ![c].pc = "done"]
    /\ UNCHANGED <<entries, states, tx, agg, call, use, cache, job, pipe, sub, bus, locks, filt, app>>

\* intercept: case evt, ok := <-in with !ok: c.update(hash, events) takes
\* cacheMux.
update(c) ==
    /\ At(c, "stream")
    /\ runs[c].closed
    /\ cache.writer = ""
    /\ cache' = [cache EXCEPT !.writer = c]
    /\ runs' = [runs EXCEPT ![c].pc = "update"]
    /\ UNCHANGED <<entries, states, tx, agg, call, use, job, pipe, sub, bus, locks, filt, app>>

\* c.cache[hash] = events; c.cacheMux.Unlock(); close(out)
updated(c) ==
    LET e == [ok |-> TRUE, events |-> Observed(c)]
    IN /\ At(c, "update")
       /\ cache' = [cache EXCEPT !.writer = "", !.entry = e,
                                 !.source = runs[c].result,
                                 !.first = IF @.ok THEN @ ELSE e]
       /\ runs' = [runs EXCEPT ![c].pc = "done"]
       /\ UNCHANGED <<entries, states, tx, agg, call, use, job, pipe, sub, bus, locks, filt, app>>

\* eventStream: case out <- evt
eventStream(c) ==
    /\ At(c, "replay")
    /\ runs[c].pos < Len(runs[c].result)
    /\ runs' = [runs EXCEPT ![c].pos = @ + 1]
    /\ UNCHANGED <<entries, states, tx, agg, call, use, cache, job, pipe, sub, bus, locks, filt, app>>

\* eventStream returns after the last event or on <-ctx.Done() and closes
\* out and errs.
eventStreamClose(c) ==
    /\ At(c, "replay")
    /\ runs[c].pos = Len(runs[c].result) \/ runs[c].canceled
    /\ runs' = [runs EXCEPT ![c].pc = "done"]
    /\ UNCHANGED <<entries, states, tx, agg, call, use, cache, job, pipe, sub, bus, locks, filt, app>>

\* The context of c's call is canceled while its stream is open.
cancel(c) ==
    /\ At(c, "stream") \/ At(c, "replay")
    /\ ~runs[c].canceled
    /\ cache' = [cache EXCEPT !.clean = FALSE]
    /\ runs' = [runs EXCEPT ![c].canceled = TRUE]
    /\ UNCHANGED <<entries, states, tx, agg, call, use, job, pipe, sub, bus, locks, filt, app>>

\* An event is inserted into the store.
storeInsert ==
    /\ ~cache.fatal
    /\ cache.stored < MaxStored
    /\ cache' = [cache EXCEPT !.stored = @ + 1]
    /\ UNCHANGED <<entries, states, tx, agg, call, use, runs, job, pipe, sub, bus, locks, filt, app>>

\* c is done with its stream and free for another call of run.
finish(c) ==
    /\ At(c, "done")
    /\ runs' = [runs EXCEPT ![c] = NotRunning]
    /\ UNCHANGED <<entries, states, tx, agg, call, use, cache, job, pipe, sub, bus, locks, filt, app>>

CacheNext ==
    \/ \E c \in Callers : run(c)
    \/ \E c \in Callers : cached(c)
    \/ \E c \in Callers : acquireQueryLock(c)
    \/ \E c \in Callers : \E seen \in {"old", "new", "fatal"} :
          cachedUnlocked(c, seen)
    \/ \E c \in Callers : \E fails \in BOOLEAN : storeQuery(c, fails)
    \/ \E c \in Callers : storeSend(c)
    \/ \E c \in Callers : storeClose(c)
    \/ \E c \in Callers : interceptDone(c)
    \/ \E c \in Callers : update(c)
    \/ \E c \in Callers : updated(c)
    \/ \E c \in Callers : eventStream(c)
    \/ \E c \in Callers : eventStreamClose(c)
    \/ \E c \in Callers : cancel(c)
    \/ storeInsert
    \/ \E c \in Callers : finish(c)

CacheSpec == CacheInit /\ [][CacheNext]_vars

\* The stream of c ended without cancellation: its consumer has the whole
\* sequence.
Complete(c) == runs[c].pc = "done" /\ ~runs[c].canceled /\ runs[c].pos > 0

MaxLog == 3

\* Latest time (in ns) of an event of that store.
MaxTime == 2

\* The aggregates the events of the job's store belong to.
JobAggregates == {<<"foo", 1>>, <<"foo", 2>>, <<"bar", 1>>}

\* The k-th event of the store, of aggregate ag, created at time t.
LogEvent(k, t, ag) ==
    [id |-> k, time |-> t, aggregateName |-> ag[1], aggregateID |-> ag[2]]

\* query.New(query.AggregateName(names...)); no names: every event.
NewQuery(names) == [names |-> names, after |-> {}]

\* query.Merge(q, query.New(query.Time(time.After(t))))
MergeAfter(q, t) == [q EXCEPT !.after = @ \cup {t}]

\* query.Test(q, evt)
Test(q, evt) ==
    /\ q.names # {} => evt.aggregateName \in q.names
    /\ \A t \in q.after : evt.time > t

\* store.Query(ctx, q): the matching events in the order of the store.
StoreQuery(log, q) == SelectSeq(log, LAMBDA evt : Test(q, evt))

\* NewJob(ctx, store, q, opts...): q is the query, aq the aggregate query
\* (<<>> without WithAggregateQuery, else <<query>>), before the
\* interceptors of WithBeforeEvent; filter are the queries of WithFilter.
NewJob(q, aq, reset, before) ==
    [query |-> q, aggregateQuery |-> aq, reset |-> reset,
     beforeEvent |-> before, filter |-> {}, cache |-> <<>>]

\* A projection target that is ProgressAware and a Resetter; applied are the
\* events ApplyEvent was called with.
NewTarget == [progress |-> 0, applied |-> <<>>]

\* queryCache.run by a single caller that consumes the stream to its end:
\* c.cache is a list of (query, events) pairs, the query standing for its
\* hash.
CacheHit(c, q) == \E k \in 1..Len(c) : c[k][1] = q
CacheGet(c, q) == c[CHOOSE k \in 1..Len(c) : c[k][1] = q][2]
runQuery(j, log, q, fails) ==
    IF CacheHit(j.cache, q)
    THEN [j |-> j, events |-> CacheGet(j.cache, q), err |-> NoErr]
    ELSE IF fails
    THEN [j |-> j, events |-> <<>>,
          err |-> Wrap("query events", MongoErr("find"))]
    ELSE [j |-> [j EXCEPT !.cache = Append(@, <<q, StoreQuery(log, q)>>)],
          events |-> StoreQuery(log, q), err |-> NoErr]

\* job.EventsFor(ctx, target), for a job without interceptors and filters.
EventsFor(j, log, target, fails) ==
    runQuery(j, log,
             IF target.progress # 0
             THEN MergeAfter(j.query, target.progress - 1)
             ELSE j.query,
             fails)

\* ApplyStream(target, events): an event whose time is not after the
\* progress of the target is skipped; an applied event moves the progress
\* to its time.
RECURSIVE ApplyStream(_, _)
ApplyStream(target, events) ==
    IF Len(events) = 0 THEN target
    ELSE LET evt == Head(events)
         IN ApplyStream(IF evt.time <= target.progress THEN target
                        ELSE [target EXCEPT !.applied = Append(@, evt.id),
                                            !.progress = evt.time],
                        Tail(events))

\* Apply that resets the target whether or not the job was made WithReset.
ApplyAfterReset(j, log, target, fails) ==
    LET r == EventsFor(j, log, NewTarget, fails)
    IN IF r.err # NoErr
       THEN [j |-> r.j, target |-> NewTarget, n |-> 0,
             err |-> Wrap("fetch events", r.err)]
       ELSE [j |-> r.j, target |-> ApplyStream(NewTarget, r.events),
             n |-> Len(ApplyStream(NewTarget, r.events).applied),
             err |-> NoErr]

\* job.Apply(ctx, target): n is the number of calls of ApplyEvent.
Apply(j, log, target, fails) ==
    LET start == IF j.reset THEN NewTarget ELSE target
        r == EventsFor(j, log, start, fails)
        end == ApplyStream(start, r.events)
    IN IF r.err # NoErr
       THEN [j |-> r.j, target |-> start, n |-> 0,
             err |-> Wrap("fetch events", r.err)]
       ELSE [j |-> r.j, target |-> end,
             n |-> Len(end.applied) - Len(start.applied), err |-> NoErr]

\* The queries a job is made with: every event, or the events of "foo".
JobQueries == {NewQuery({}), NewQuery({"foo"})}

NoJobCall == [op |-> "", n |-> 0, err |-> NoErr]

\* A store without events, a job for one of the queries and a new target.
JobInit ==
    /\ \E q \in JobQueries :
          job = [log |-> <<>>, j |-> NewJob(q, <<>>, FALSE, <<>>),
                 target |-> NewTarget, stale |-> FALSE,
                 call |-> NoJobCall, prev |-> NoJobCall]
    /\ entries = {}
    /\ states = EmptyBag
    /\ tx = [p \in Procs |-> Idle]
    /\ agg = newMockAggregate(AggX)
    /\ call = NoCall
    /\ use = [pc |-> "idle"]
    /\ cache = [pc |-> "idle"]
    /\ runs = [pc |-> "idle"]
    /\ pipe = [pc |-> "idle"]
    /\ sub = [pc |-> "idle"]
    /\ bus = [pc |-> "idle"]
    /\ locks = [pc |-> "idle"]
    /\ filt = [pc |-> "idle"]
    /\ app = [pc |-> "idle"]

\* The call that has just returned, and the one before it.
Called(op, n, err) ==
    [job EXCEPT !.call = [op |-> op, n |-> n, err |-> err], !.prev = job.call]

\* A schedule makes the next job for the same query, with or without
\* WithReset.
JobNew(reset) ==
    /\ job' = [Called("NewJob", 0, NoErr) EXCEPT
                  !.j = NewJob(job.j.query, <<>>, reset, <<>>),
                  !.stale = FALSE]
    /\ UNCHANGED <<entries, states, tx, agg, call, use, cache, runs, pipe, sub, bus, locks, filt, app>>

\* An event is inserted into the store; the store keeps its events in the
\* order of their times.
JobInsert(t, ag) ==
    LET n == Len(job.log)
    IN /\ n < MaxLog
       /\ n > 0 => t >= job.log[n].time
       /\ job' = [Called("Insert", 0, NoErr) EXCEPT
                     !.log = Append(@, LogEvent(n + 1, t, ag)),
                     !.stale = Len(job.j.cache) > 0]
       /\ UNCHANGED <<entries, states, tx, agg, call, use, cache, runs, pipe, sub, bus, locks, filt, app>>

\* job.Apply(ctx, target)
JobApply(fails) ==
    LET r == Apply(job.j, job.log, job.target, fails)
    IN /\ job' = [Called("Apply", r.n, r.err) EXCEPT
                     !.j = r.j, !.target = r.target]
       /\ UNCHANGED <<entries, states, tx, agg, call, use, cache, runs, pipe, sub, bus, locks, filt, app>>

\* The projection is built anew: a target without progress.
JobNewTarget ==
    /\ job.target # NewTarget
    /\ job' = [Called("NewTarget", 0, NoErr) EXCEPT !.target = NewTarget]
    /\ UNCHANGED <<entries, states, tx, agg, call, use, cache, runs, pipe, sub, bus, locks, filt, app>>

JobNext ==
    \/ \E reset \in BOOLEAN : JobNew(reset)
    \/ \E t \in 1..MaxTime : \E ag \in {<<"foo", 1>>, <<"bar", 1>>} :
          JobInsert(t, ag)
    \/ \E fails \in BOOLEAN : JobApply(fails)
    \/ JobNewTarget

JobSpec == JobInit /\ [][JobNext]_vars

\* How often ApplyEvent was called with the event id.
Times(applied, id) == Cardinality({k \in 1..Len(applied) : applied[k] = id})

MaxRefs == 3

ErrAggregateNotFound == [kind |-> "AggregateNotFound"]

\* The stores of n events whose aggregates are taken from JobAggregates or
\* are missing; the k-th event has the time k.
RefLogs(n) ==
    {[k \in 1..n |-> LogEvent(k, k, f[k])] :
        f \in [1..n -> JobAggregates \cup {<<"", NilID>>}]}

\* event.Filter(str, filter...): the events every filter matches.
Filter(events, filter) ==
    SelectSeq(events, LAMBDA evt : \A q \in filter : Test(q, evt))

\* job.queryEvents(ctx, q, filter...) of a job without interceptors.
queryEvents(j, log, q, filter, fails) ==
    LET r == runQuery(j, log, q, fails)
    IN [r EXCEPT !.events = Filter(r.events, j.filter \cup filter)]

\* The loop of Aggregates with a map keyed by the aggregate name alone.
RECURSIVE RefsByName(_, _)
RefsByName(events, found) ==
    IF Len(events) = 0 THEN <<>>
    ELSE LET ref == AggOf(Head(events))
         IN IF ref[1] \in found THEN RefsByName(Tail(events), found)
            ELSE <<ref>> \o RefsByName(Tail(events), found \cup {ref[1]})

\* The loop of Aggregates: the reference of each event is sent unless it is
\* in found.
RECURSIVE Refs(_, _)
Refs(events, found) ==
    IF Len(events) = 0 THEN <<>>
    ELSE LET ref == AggOf(Head(events))
         IN IF ref \in found THEN Refs(Tail(events), found)
            ELSE <<ref>> \o Refs(Tail(events), found \cup {ref})

\* job.Aggregates(ctx, names...): refs is what the stream delivers when it
\* is read to its end.
JobAggregatesOf(j, log, names, fails) ==
    LET filter == IF names = {} THEN {} ELSE {NewQuery(names)}
        r == IF j.aggregateQuery # <<>>
             THEN queryEvents(j, log, j.aggregateQuery[1], filter, fails)
             ELSE queryEvents(j, log, j.query, filter, fails)
    IN IF r.err # NoErr
       THEN [j |-> r.j, refs |-> <<>>, err |-> Wrap("query events", r.err)]
       ELSE [j |-> r.j, refs |-> Refs(r.events, {}), err |-> NoErr]

\* streams.Walk over the references: the first one walkFn answers done for.
Walk(refs, name) ==
    LET hits == {k \in 1..Len(refs) : refs[k][1] = name}
    IN IF hits = {} THEN [done |-> FALSE, id |-> NilID]
       ELSE [done |-> TRUE,
             id |-> refs[CHOOSE k \in hits : \A i \in hits : k <= i][2]]

\* job.Aggregate(ctx, name): when Walk ends without done, its error (nil at
\* the end of the stream) is returned with uuid.Nil.
JobAggregateOf(j, log, name, fails) ==
    LET r == JobAggregatesOf(j, log, {name}, fails)
        w == Walk(r.refs, name)
    IN IF r.err # NoErr THEN [j |-> r.j, id |-> NilID, err |-> r.err]
       ELSE IF ~w.done THEN [j |-> r.j, id |-> NilID, err |-> NoErr]
       ELSE IF w.id = NilID
       THEN [j |-> r.j, id |-> NilID, err |-> ErrAggregateNotFound]
       ELSE [j |-> r.j, id |-> w.id, err |-> NoErr]

\* The jobs whose aggregates are extracted: with either query, without or
\* with an aggregate query, without or with a filter.
RefJobs ==
    {[NewJob(q, aq, FALSE, <<>>) EXCEPT !.filter = f] :
        q \in JobQueries,
        aq \in {<<>>, <<NewQuery({})>>, <<NewQuery({"bar"})>>},
        f \in {{}, {NewQuery({"foo"})}}}

RefInit ==
    /\ \E n \in 0..MaxRefs : \E log \in RefLogs(n) : \E j \in RefJobs :
          job = [log |-> log, j |-> j, names |-> {}, refs |-> <<>>,
                 call |-> NoJobCall]
    /\ entries = {}
    /\ states = EmptyBag
    /\ tx = [p \in Procs |-> Idle]
    /\ agg = newMockAggregate(AggX)
    /\ call = NoCall
    /\ use = [pc |-> "idle"]
    /\ cache = [pc |-> "idle"]
    /\ runs = [pc |-> "idle"]
    /\ pipe = [pc |-> "idle"]
    /\ sub = [pc |-> "idle"]
    /\ bus = [pc |-> "idle"]
    /\ locks = [pc |-> "idle"]
    /\ filt = [pc |-> "idle"]
    /\ app = [pc |-> "idle"]

\* job.Aggregates(ctx, names...), its stream read to the end.
RefAggregates(names, fails) ==
    LET r == JobAggregatesOf(job.j, job.log, names, fails)
    IN /\ job' = [job EXCEPT !.j = r.j, !.names = names, !.refs = r.refs,
                     !.call = [op |-> "Aggregates", n |-> Len(r.refs),
                               err |-> r.err]]
       /\ UNCHANGED <<entries, states, tx, agg, call, use, cache, runs, pipe, sub, bus, locks, filt, app>>

\* job.Aggregate(ctx, name)
RefAggregate(name, fails) ==
    LET r == JobAggregateOf(job.j, job.log, name, fails)
    IN /\ job' = [job EXCEPT !.j = r.j, !.names = {name}, !.refs = <<>>,
                     !.call = [op |-> "Aggregate", n |-> r.id, err |-> r.err]]
       /\ UNCHANGED <<entries, states, tx, agg, call, use, cache, runs, pipe, sub, bus, locks, filt, app>>

RefNext ==
    \/ \E names \in SUBSET {"foo", "bar"} : \E fails \in BOOLEAN :
          RefAggregates(names, fails)
    \/ \E name \in {"foo", "bar", "baz"} : \E fails \in BOOLEAN :
          RefAggregate(name, fails)

RefSpec == RefInit /\ [][RefNext]_vars

\* The events of the job's aggregate query (of its base query without one)
\* that pass the job's filter and belong to one of the names.
RefEvents(names) ==
    LET q == IF job.j.aggregateQuery # <<>> THEN job.j.aggregateQuery[1]
             ELSE job.j.query
    IN SelectSeq(job.log,
                 LAMBDA evt : /\ Test(q, evt)
                              /\ \A f \in job.j.filter : Test(f, evt)
                              /\ names # {} => evt.aggregateName \in names)

\* The position of the first event of aggregate ref.
FirstOf(events, ref) ==
    CHOOSE k \in 1..Len(events) :
        /\ AggOf(events[k]) = ref
        /\ \A i \in 1..(k - 1) : AggOf(events[i]) # ref

\* C17: Aggregate(ctx, name) returns the id of the first reference with that
\* name; without such a reference (also without any event) it fails with
\* ErrAggregateNotFound, and it never returns a nil error with the nil UUID.
C17_AggregateOrNotFound ==
    \A name \in {"foo", "bar", "baz"} :
        LET r == JobAggregateOf(job.j, job.log, name, FALSE)
            E == RefEvents({name})
        IN /\ Len(E) > 0 => r.err = NoErr /\ r.id = E[1].aggregateID
           /\ Len(E) = 0 => r.err = ErrAggregateNotFound
           /\ ~(r.err = NoErr /\ r.id = NilID)

\* C18: Aggregates emits each (name, id) pair of the events of the aggregate
\* query (of the base query without one) exactly once, in the order of the
\* pairs' first events, and only pairs with one of the given names.
C18_AggregatesDistinct ==
    \A names \in SUBSET {"foo", "bar"} :
        LET refs == JobAggregatesOf(job.j, job.log, names, FALSE).refs
            E == RefEvents(names)
        IN /\ \A i, k \in 1..Len(refs) : i # k => refs[i] # refs[k]
           /\ {refs[k] : k \in 1..Len(refs)} = {AggOf(E[k]) : k \in 1..Len(E)}
           /\ \A i, k \in 1..Len(refs) :
                 i < k => FirstOf(E, refs[i]) < FirstOf(E, refs[k])
           /\ names # {} => \A k \in 1..Len(refs) : refs[k][1] \in names

\* C18 happens: Aggregates has streamed two references of one name out of
\* three or more events, one reference standing for several events.
C18_Witness ==
    /\ job.call.op = "Aggregates"
    /\ job.call.err = NoErr
    /\ job.refs = Refs(RefEvents(job.names), {})
    /\ Len(job.refs) >= 2
    /\ Len(RefEvents(job.names)) > Len(job.refs)
    /\ job.refs[1][1] = job.refs[2][1]

\* ------------------------------------------- the before-each interceptors

\* Most events of the stream the interceptors are applied to.
MaxIn == 2

\* Most events an interceptor returns for one event.
MaxAdds == 1

\* The interceptors registered with WithBeforeEvent, in registration order.
Interceptors == <<"first", "second">>

\* The m-th event interceptor i returns for evt. A queried event is <<k>>;
\* an added event carries the event it was returned for.
Added(evt, i, m) == evt \o <<i, m>>

\* The scope of the range variable `before` that the wrappers' callbacks
\* capture: one variable per iteration (go directive 1.22 or later), or one
\* variable for the whole loop, which the callbacks read while or after the
\* loop assigns it.
LoopVars == {"iteration", "loop"}

\* What an interceptor does: it returns adds events for every event it is
\* called with, and an error instead for the failOn-th queried event (for no
\* event when failOn is 0).
Behaviours(m) == [adds : 0..MaxAdds, failOn : 0..m]

\* before(ctx, evt) of the interceptor with behaviour b: the number of events
\* it returns, or an error.
Intercept(b, evt) ==
    IF Len(evt) = 1 /\ evt[1] = b.failOn THEN [n |-> 0, err |-> TRUE]
    ELSE [n |-> b.adds, err |-> FALSE]

\* A goroutine of streams.BeforeContext: it receives (recv), reports the
\* interceptor's error (fail), sends what queue holds (send) and has
\* returned, its stream closed (closed).
StageInit == [pc |-> "recv", cur |-> <<>>, queue |-> <<>>]

\* applyBeforeEvent(ctx, events, errs) over a stream of m events and an
\* error stream of pending errors, with the first n interceptors.
PipeInit ==
    /\ \E n \in 1..Len(Interceptors) : \E m \in 0..MaxIn :
       \E pending \in 0..1 : \E before \in [1..n -> Behaviours(m)] :
       \E loopvar \in LoopVars :
          pipe = [n |-> n,
                  before |-> before,
                  loopvar |-> loopvar,
                  range |-> 1,
                  query |-> [k \in 1..m |-> <<k>>],
                  src |-> [k \in 1..m |-> <<k>>],
                  pending |-> pending,
                  stage |-> [s \in 1..n |-> StageInit],
                  fw |-> "range",
                  eg |-> "range",
                  canceled |-> FALSE,
                  out |-> <<>>,
                  errs |-> {},
                  calls |-> {},
                  panicked |-> FALSE]
    /\ entries = {}
    /\ states = EmptyBag
    /\ tx = [p \in Procs |-> Idle]
    /\ agg = newMockAggregate(AggX)
    /\ call = NoCall
    /\ use = [pc |-> "idle"]
    /\ cache = [pc |-> "idle"]
    /\ runs = [pc |-> "idle"]
    /\ job = [pc |-> "idle"]
    /\ sub = [pc |-> "idle"]
    /\ bus = [pc |-> "idle"]
    /\ locks = [pc |-> "idle"]
    /\ filt = [pc |-> "idle"]
    /\ app = [pc |-> "idle"]

\* What a sender is left with after its head was received.
Sent(st) ==
    IF Len(st.queue) = 1 THEN StageInit
    ELSE [st EXCEPT !.queue = Tail(st.queue)]

PipeStep(next) ==
    /\ ~pipe.panicked
    /\ pipe' = next
    /\ UNCHANGED <<entries, states, tx, agg, call, use, cache, runs, job, sub, bus, locks, filt, app>>

\* The interceptor the callback of stage s calls: the one of its iteration,
\* or the one the loop's variable holds when the callback runs.
Bound(s) == IF pipe.loopvar = "iteration" THEN s ELSE pipe.range

\* The wrapper's callback for evt in stage s: the interceptor's events are
\* returned; after an error fail is called and no event is added.
Intercepted(s, evt) ==
    LET ret == Intercept(pipe.before[Bound(s)], evt)
    IN IF ret.err THEN [pc |-> "fail", cur |-> evt, queue |-> <<>>]
       ELSE [pc |-> "send", cur |-> evt,
             queue |-> [m \in 1..ret.n |-> Added(evt, Bound(s), m)]
                       \o <<evt>>]

\* The call the interceptor of stage s got with evt.
CallOf(s, evt) ==
    LET ret == Intercept(pipe.before[Bound(s)], evt)
    IN [stage |-> s, i |-> Bound(s), evt |-> evt, n |-> ret.n,
        err |-> ret.err]

\* The loop over j.beforeEvent assigns the next interceptor and wraps the
\* stream once more.
Range ==
    /\ pipe.range < pipe.n
    /\ PipeStep([pipe EXCEPT !.range = pipe.range + 1])

\* BeforeContext receives an event from the stream it wraps and calls the
\* interceptor with it.
BeforeRecv(s) ==
    /\ s \in 1..pipe.range
    /\ pipe.stage[s].pc = "recv"
    /\ IF s = 1
       THEN /\ pipe.src # <<>>
            /\ PipeStep([pipe EXCEPT
                   !.src = Tail(pipe.src),
                   !.calls = pipe.calls \cup {CallOf(s, Head(pipe.src))},
                   !.stage[s] = Intercepted(s, Head(pipe.src))])
       ELSE /\ pipe.stage[s - 1].pc = "send"
            /\ LET evt == Head(pipe.stage[s - 1].queue)
               IN PipeStep([pipe EXCEPT
                      !.stage[s - 1] = Sent(pipe.stage[s - 1]),
                      !.calls = pipe.calls \cup {CallOf(s, evt)},
                      !.stage[s] = Intercepted(s, evt)])

\* BeforeContext returns and closes its stream: the stream it wraps is
\* closed, or the context is done while it receives or sends.
BeforeClose(s) ==
    /\ s \in 1..pipe.range
    /\ \/ /\ pipe.stage[s].pc = "recv"
          /\ IF s = 1 THEN pipe.src = <<>>
             ELSE pipe.stage[s - 1].pc = "closed"
       \/ /\ pipe.stage[s].pc \in {"recv", "send"}
          /\ pipe.canceled
    /\ PipeStep([pipe EXCEPT !.stage[s] = [pc |-> "closed", cur |-> <<>>,
                                           queue |-> <<>>]])

\* fail(err): the select takes ctx.Done() when the context is done, or
\* sends on outErrs; a send on the closed outErrs panics.
BeforeFail(s, drop) ==
    /\ s \in 1..pipe.n
    /\ pipe.stage[s].pc = "fail"
    /\ drop => pipe.canceled
    /\ LET evt == pipe.stage[s].cur
           st == [pc |-> "send", cur |-> evt, queue |-> <<evt>>]
       IN IF drop THEN PipeStep([pipe EXCEPT !.stage[s] = st])
          ELSE IF pipe.eg = "closed"
          THEN PipeStep([pipe EXCEPT !.panicked = TRUE])
          ELSE PipeStep([pipe EXCEPT
                   !.stage[s] = st,
                   !.errs = pipe.errs \cup {<<Bound(s), evt>>}])

\* The forwarding goroutine receives an event from the last wrapper and
\* sends it on out, where the reader of the job's stream takes it.
Forward ==
    /\ pipe.range = pipe.n
    /\ pipe.fw = "range"
    /\ pipe.stage[pipe.n].pc = "send"
    /\ PipeStep([pipe EXCEPT
           !.stage[pipe.n] = Sent(pipe.stage[pipe.n]),
           !.out = Append(pipe.out, Head(pipe.stage[pipe.n].queue))])

\* The last wrapper's stream is closed: out and eventsDone are closed.
ForwardClose ==
    /\ pipe.range = pipe.n
    /\ pipe.fw = "range"
    /\ pipe.stage[pipe.n].pc = "closed"
    /\ PipeStep([pipe EXCEPT !.fw = "closed"])

\* The error goroutine forwards an error of the wrapped error stream.
ErrsForward ==
    /\ pipe.range = pipe.n
    /\ pipe.eg = "range"
    /\ pipe.pending > 0
    /\ PipeStep([pipe EXCEPT !.pending = pipe.pending - 1,
                             !.errs = pipe.errs \cup {<<0, <<>>>>}])

\* The wrapped error stream is closed (with the wrapped event stream): the
\* error goroutine waits for eventsDone.
ErrsDone ==
    /\ pipe.range = pipe.n
    /\ pipe.eg = "range"
    /\ pipe.pending = 0
    /\ pipe.src = <<>>
    /\ PipeStep([pipe EXCEPT !.eg = "wait"])

\* eventsDone is closed: outErrs is closed.
ErrsClose ==
    /\ pipe.eg = "wait"
    /\ pipe.fw = "closed"
    /\ PipeStep([pipe EXCEPT !.eg = "closed"])

\* The context of the job is canceled.
PipeCancel ==
    /\ ~pipe.canceled
    /\ PipeStep([pipe EXCEPT !.canceled = TRUE])

\* The wrapped streams end early because the context is done.
SourceCancel ==
    /\ pipe.canceled
    /\ pipe.src # <<>> \/ pipe.pending > 0
    /\ PipeStep([pipe EXCEPT !.src = <<>>, !.pending = 0])

PipeNext ==
    \/ Range
    \/ \E s \in 1..Len(Interceptors) : BeforeRecv(s)
    \/ \E s \in 1..Len(Interceptors) : BeforeClose(s)
    \/ \E s \in 1..Len(Interceptors) : \E drop \in BOOLEAN :
          BeforeFail(s, drop)
    \/ Forward
    \/ ForwardClose
    \/ ErrsForward
    \/ ErrsDone
    \/ ErrsClose
    \/ PipeCancel
    \/ SourceCancel

PipeSpec == PipeInit /\ [][PipeNext]_vars

\* The events interceptor i returns for evt, in the order it returns them.
Returned(i, evt) ==
    [m \in 1..Intercept(pipe.before[i], evt).n |-> Added(evt, i, m)]

\* What precedes evt downstream when each interceptor's events stand
\* immediately before the event they were returned for: the events of the
\* first interceptor, each preceded by what the second returned for it, then
\* the events of the second interceptor.
RECURSIVE Preceded(_)
Preceded(evts) ==
    IF Len(evts) = 0 THEN <<>>
    ELSE Returned(2, Head(evts)) \o <<Head(evts)>> \o Preceded(Tail(evts))

Block(evt) ==
    IF pipe.n = 1 THEN Returned(1, evt)
    ELSE Preceded(Returned(1, evt)) \o Returned(2, evt)

\* The position of the queried event before position p downstream, or 0.
PrevQueried(p) ==
    LET before == {q \in 1..(p - 1) : Len(pipe.out[q]) = 1}
    IN IF before = {} THEN 0
       ELSE CHOOSE q \in before : \A r \in before : r <= q

IsPrefix(s, t) == Len(s) <= Len(t) /\ s = SubSeq(t, 1, Len(s))

\* C19: downstream, every queried event e is preceded immediately by the
\* events the interceptors returned for e, those of the first registered
\* interceptor before those of the second, and the queried events keep their
\* order.
C19_BeforeEachOrder ==
    /\ IsPrefix(SelectSeq(pipe.out, LAMBDA evt : Len(evt) = 1), pipe.query)
    /\ \A p \in 1..Len(pipe.out) :
          Len(pipe.out[p]) = 1 =>
             SubSeq(pipe.out, PrevQueried(p) + 1, p - 1) = Block(pipe.out[p])

\* The stream and the error stream have ended.
PipeDone == pipe.fw = "closed" /\ pipe.eg = "closed"

\* C20: an interceptor's error for e reaches the job's error channel and e is
\* still emitted; the error channel is closed only after the event stream
\* has ended, and nothing is sent on it after it was closed.
C20_InterceptorErrors ==
    /\ \A c \in pipe.calls :
          (c.err /\ ~pipe.canceled) =>
             /\ \/ <<c.i, c.evt>> \in pipe.errs
                \/ \E s \in 1..pipe.n : /\ pipe.stage[s].pc = "fail"
                                        /\ pipe.stage[s].cur = c.evt
             /\ PipeDone => \E p \in 1..Len(pipe.out) : pipe.out[p] = c.evt
    /\ pipe.eg = "closed" => pipe.fw = "closed"
    /\ ~pipe.panicked

\* ------------------------------------------- schedules and subscriptions

\* Most events the bus delivers to a continuous schedule.
MaxEvents == 2

\* Most ticks of the ticker of a periodic schedule.
MaxTicks == 2

\* query.New(query.AggregateName(names...),
\*           query.AggregateVersion(version.Exact(0)))
BaseQuery(names) == [names |-> names, after |-> {}, exact |-> {0}]

\* query.Test for a query with exact aggregate versions.
TestExact(q, evt) ==
    /\ Test(q, evt)
    /\ q.exact # {} => evt.aggregateVersion \in q.exact

\* shouldDiscard without the check of the aggregate id.
shouldDiscardUnnamed(evt, q) ==
    IF evt.aggregateName = "" THEN TRUE ELSE ~Test(q, evt)

\* shouldDiscard(evt, q)
shouldDiscard(evt, q) ==
    IF evt.aggregateName = "" \/ evt.aggregateID = NilID THEN TRUE
    ELSE ~Test(q, evt)

\* The events a bus delivers: of the aggregates order and ignored, without
\* aggregate, and with an aggregate name but the nil id.
BusEvents ==
    {Evt("w1", "order", 1, 1), Evt("w1", "ignored", 1, 1), PlainEvt("w1"),
     Evt("w1", "order", NilID, 1)}

\* The stores of a periodic schedule: the aggregates a, b and c with one
\* version-1 event each, and the same aggregates with a first event of
\* version 0 for a and c.
TickStores ==
    {<<Evt("w1", "a", 1, 1), Evt("w1", "b", 1, 1), Evt("w1", "c", 1, 1)>>,
     <<Evt("w1", "a", 1, 0), Evt("w1", "b", 1, 1), Evt("w1", "c", 1, 0)>>}

\* FilterEvents(opts...): the options are appended to the schedule's filter;
\* without FilterEvents the filter is query.New().
FilterEvents(names) == NewQuery(names)

\* Continuously(bus, events, opts...): events is what the bus will deliver.
Continuously(events, filtered, filter) ==
    [schedule |-> "continuously", filtered |-> filtered, filter |-> filter,
     events |-> events, store |-> <<>>, names |-> {}]

\* Periodically(store, d, aggregates, opts...)
Periodically(store, names, filtered, filter) ==
    [schedule |-> "periodically", filtered |-> filtered, filter |-> filter,
     events |-> <<>>, store |-> store, names |-> names]

\* The schedules: without FilterEvents, and with a filter for order or a.
Schedules ==
    {Continuously(events, f[1], f[2]) :
        events \in UNION {[1..n -> BusEvents] : n \in 0..MaxEvents},
        f \in {<<FALSE, FilterEvents({})>>,
               <<TRUE, FilterEvents({"order"})>>}}
    \cup
    {Periodically(store, names, f[1], f[2]) :
        store \in TickStores, names \in {{}, {"a", "b"}},
        f \in {<<FALSE, FilterEvents({})>>, <<TRUE, FilterEvents({"a"})>>}}

NoJob == <<"", NilID>>

\* newSubscription(proj, s, opts...) and Subscribe(ctx, s, proj, opts...):
\* s.jobs(ctx) has started the schedule's goroutine (tick), handleJobs (hj)
\* and handleCancel (hc) run. stopTimeout is 0 without StopTimeout.
newSubscription(s, stopTimeout) ==
    [s |-> s,
     stopTimeout |-> stopTimeout,
     canceled |-> FALSE,
     busClosed |-> FALSE,
     stopped |-> FALSE,
     consuming |-> TRUE,
     seen |-> 0,
     ticks |-> 0,
     tick |-> [pc |-> "range", walk |-> <<>>, job |-> NoJob, final |-> FALSE],
     hj |-> [pc |-> "select", job |-> NoJob],
     hc |-> "parent",
     tickets |-> <<>>,
     out |-> <<>>,
     errs |-> 0,
     closes |-> [out |-> 0, jobs |-> 0, errs |-> 0, stop |-> 0,
                 handleDone |-> 0],
     sentOnClosed |-> FALSE]

SubInit ==
    /\ \E s \in Schedules : \E stopTimeout \in {0, 1} :
          sub = newSubscription(s, stopTimeout)
    /\ entries = {}
    /\ states = EmptyBag
    /\ tx = [p \in Procs |-> Idle]
    /\ agg = newMockAggregate(AggX)
    /\ call = NoCall
    /\ use = [pc |-> "idle"]
    /\ cache = [pc |-> "idle"]
    /\ runs = [pc |-> "idle"]
    /\ job = [pc |-> "idle"]
    /\ pipe = [pc |-> "idle"]
    /\ bus = [pc |-> "idle"]
    /\ locks = [pc |-> "idle"]
    /\ filt = [pc |-> "idle"]
    /\ app = [pc |-> "idle"]

SubStep(next) ==
    /\ sub' = next
    /\ UNCHANGED <<entries, states, tx, agg, call, use, cache, runs, job,
                   pipe, bus, locks, filt, app>>

\* What the schedule's goroutine does with evt: nothing when it is discarded,
\* else it makes the job and sends it on jobs.
WithJob(evt, walk) ==
    IF shouldDiscard(evt, sub.s.filter)
    THEN [sub EXCEPT !.tick.walk = walk]
    ELSE [sub EXCEPT !.tick.pc = "send", !.tick.walk = walk,
                     !.tick.job = AggOf(evt),
                     !.tickets = Append(sub.tickets, AggOf(evt))]

\* continously.handleEvents: the next event of the bus is received.
handleEvents ==
    /\ sub.s.schedule = "continuously"
    /\ sub.tick.pc = "range"
    /\ ~sub.busClosed
    /\ sub.seen < Len(sub.s.events)
    /\ SubStep([WithJob(sub.s.events[sub.seen + 1], <<>>) EXCEPT
                   !.seen = sub.seen + 1])

\* continously.handleEvents: the events channel is closed; jobs is closed.
handleEventsDone ==
    /\ sub.s.schedule = "continuously"
    /\ sub.tick.pc = "range"
    /\ sub.busClosed
    /\ SubStep([sub EXCEPT !.tick.pc = "closed",
                           !.closes.jobs = sub.closes.jobs + 1])

\* The bus closes the events channel of the schedule when ctx is canceled.
busClose ==
    /\ sub.s.schedule = "continuously"
    /\ sub.canceled
    /\ ~sub.busClosed
    /\ SubStep([sub EXCEPT !.busClosed = TRUE])

\* periodically.handleTicks: a tick is received and the store is queried;
\* a failed query is reported on errs before the goroutine returns.
handleTicks(fails) ==
    /\ sub.s.schedule = "periodically"
    /\ sub.tick.pc = "range"
    /\ ~sub.stopped
    /\ sub.ticks < MaxTicks
    /\ SubStep([sub EXCEPT
           !.ticks = sub.ticks + 1,
           !.tick = IF fails
                    THEN [pc |-> "errs", walk |-> <<>>, job |-> NoJob,
                          final |-> TRUE]
                    ELSE [pc |-> "walk",
                          walk |-> SelectSeq(sub.s.store,
                                      LAMBDA evt :
                                         TestExact(BaseQuery(sub.s.names),
                                                   evt)),
                          job |-> NoJob, final |-> FALSE]])

\* event.Walk in handleTicks: the next event of the stream is handled; at
\* the end of the stream the next tick is awaited; when ctx is done Walk
\* fails and the error is reported on errs.
handleTicksWalk(abort) ==
    /\ sub.tick.pc = "walk"
    /\ abort => sub.canceled
    /\ IF abort THEN SubStep([sub EXCEPT !.tick.pc = "errs",
                                         !.tick.walk = <<>>])
       ELSE IF sub.tick.walk = <<>>
       THEN SubStep([sub EXCEPT !.tick.pc = "range"])
       ELSE SubStep(WithJob(Head(sub.tick.walk), Tail(sub.tick.walk)))

\* errs <- err in handleTicks: the reader of the error channel takes it; after
\* a failed query the goroutine returns and closes errs and jobs.
handleTicksErr ==
    /\ sub.tick.pc = "errs"
    /\ SubStep([sub EXCEPT
           !.errs = sub.errs + 1,
           !.sentOnClosed = sub.sentOnClosed \/ sub.closes.errs > 0,
           !.tick.pc = IF sub.tick.final THEN "closed" ELSE "range",
           !.closes.errs = IF sub.tick.final THEN @ + 1 ELSE @,
           !.closes.jobs = IF sub.tick.final THEN @ + 1 ELSE @])

\* The goroutine of periodically.jobs: ctx is done, the ticker is stopped.
tickerStop ==
    /\ sub.s.schedule = "periodically"
    /\ sub.canceled
    /\ ~sub.stopped
    /\ SubStep([sub EXCEPT !.stopped = TRUE])

\* handleJobs that closes out and handleDone and goes on with its loop.
handleJobsLoop(s) ==
    [s EXCEPT !.closes.out = s.closes.out + 1,
              !.closes.handleDone = s.closes.handleDone + 1]

\* handleJobs returns: out and handleDone are closed.
handleJobsReturn(s) ==
    [s EXCEPT !.hj = [pc |-> "done", job |-> NoJob],
              !.closes.out = s.closes.out + 1,
              !.closes.handleDone = s.closes.handleDone + 1]

\* handleJobs receives the job the schedule sends on jobs.
handleJobs ==
    /\ sub.hj.pc = "select"
    /\ sub.tick.pc = "send"
    /\ SubStep([sub EXCEPT
           !.sentOnClosed = sub.sentOnClosed \/ sub.closes.jobs > 0,
           !.hj = [pc |-> "emit", job |-> sub.tick.job],
           !.tick.job = NoJob,
           !.tick.pc = IF sub.s.schedule = "periodically" THEN "walk"
                       ELSE "range"])

\* handleJobs sends the Context of the job on out, where the reader takes it.
handleJobsEmit ==
    /\ sub.hj.pc = "emit"
    /\ sub.consuming
    /\ SubStep([sub EXCEPT
           !.sentOnClosed = sub.sentOnClosed \/ sub.closes.out > 0,
           !.out = Append(sub.out, sub.hj.job),
           !.hj = [pc |-> "select", job |-> NoJob]])

\* handleJobs returns in either select because stop is closed.
handleJobsStop ==
    /\ sub.hj.pc \in {"select", "emit"}
    /\ sub.closes.stop > 0
    /\ SubStep(handleJobsReturn(sub))

\* handleJobs returns because jobs is closed.
handleJobsDone ==
    /\ sub.hj.pc = "select"
    /\ sub.closes.jobs > 0
    /\ SubStep(handleJobsReturn(sub))

\* handleCancel: the parent context is done; the second select waits for
\* handleDone and, with a stopTimeout, for the timer.
handleCancel ==
    /\ sub.hc = "parent"
    /\ sub.canceled
    /\ SubStep([sub EXCEPT !.hc = "timeout"])

\* handleCancel returns and closes stop: handleDone is closed (either
\* select), or the timer of a positive stopTimeout fires.
handleCancelReturn(timeout) ==
    /\ sub.hc \in {"parent", "timeout"}
    /\ IF timeout THEN sub.hc = "timeout" /\ sub.stopTimeout > 0
       ELSE sub.closes.handleDone > 0
    /\ SubStep([sub EXCEPT !.hc = "done",
                           !.closes.stop = sub.closes.stop + 1])

\* The context passed to Subscribe is canceled.
SubCancel ==
    /\ ~sub.canceled
    /\ SubStep([sub EXCEPT !.canceled = TRUE])

\* The reader of the output channel stops receiving.
SubReaderStops ==
    /\ sub.consuming
    /\ SubStep([sub EXCEPT !.consuming = FALSE])

SubNext ==
    \/ handleEvents
    \/ handleEventsDone
    \/ busClose
    \/ \E fails \in BOOLEAN : handleTicks(fails)
    \/ \E abort \in BOOLEAN : handleTicksWalk(abort)
    \/ handleTicksErr
    \/ tickerStop
    \/ handleJobs
    \/ handleJobsEmit
    \/ handleJobsStop
    \/ handleJobsDone
    \/ handleCancel
    \/ \E timeout \in BOOLEAN : handleCancelReturn(timeout)
    \/ SubCancel
    \/ SubReaderStops

SubSpec == SubInit /\ [][SubNext]_vars

\* Every goroutine of the subscription and of its schedule takes the steps it
\* can take, and a started timer fires; the reader and the owner of the
\* context are free.
FairSubSpec ==
    /\ SubSpec
    /\ WF_vars(handleEvents)
    /\ WF_vars(handleEventsDone)
    /\ WF_vars(busClose)
    /\ WF_vars(\E abort \in BOOLEAN : handleTicksWalk(abort))
    /\ WF_vars(handleTicksErr)
    /\ WF_vars(tickerStop)
    /\ WF_vars(handleJobs)
    /\ WF_vars(handleJobsEmit)
    /\ WF_vars(handleJobsStop)
    /\ WF_vars(handleJobsDone)
    /\ WF_vars(handleCancel)
    /\ WF_vars(\E timeout \in BOOLEAN : handleCancelReturn(timeout))

\* C21: after the context passed to Subscribe is canceled the output channel
\* is eventually closed, for either schedule and every StopTimeout, also when
\* the reader stops receiving; and nothing is sent on it once it is closed.
C21_GracefulStop ==
    /\ sub.canceled ~> sub.closes.out > 0
    /\ [](sub.closes.out > 0 => sub.hj.pc = "done")

\* C22: without a StopTimeout handleCancel closes stop as soon as the parent
\* context is done: it never waits for handleDone, that is for the end of the
\* job loop or of the jobs channel.
C22_ImmediateStop ==
    (sub.stopTimeout = 0 /\ sub.hc = "timeout") => sub.closes.handleDone > 0

\* The goroutines that are about to send on the output channel.
OutSenders == {g \in {"hj"} : sub[g].pc = "emit"}

\* C23: nothing is sent on a closed channel (out, jobs, errs), every channel
\* is closed at most once, and out has at most one sender at any time.
C23_ChannelsSafe ==
    /\ ~sub.sentOnClosed
    /\ \A ch \in DOMAIN sub.closes : sub.closes[ch] <= 1
    /\ Cardinality(OutSenders) <= 1

\* C23 happens: after a cancellation stop, out and handleDone are closed
\* while the schedule still holds a job it cannot send, and the reader got a
\* ticket before.
C23_Witness ==
    /\ sub.canceled
    /\ sub.closes.stop = 1
    /\ sub.closes.out = 1
    /\ sub.closes.handleDone = 1
    /\ sub.tick.pc = "send"
    /\ Len(sub.out) > 0

\* The events a continuous schedule has received so far.
Received == SubSeq(sub.s.events, 1, sub.seen)

\* The tickets of the events among evts that pass keep.
TicketsOf(evts, keep(_)) ==
    LET kept == SelectSeq(evts, keep)
    IN [k \in 1..Len(kept) |-> AggOf(kept[k])]

C25_FilterEventsExcludes ==
    (sub.s.schedule = "continuously" /\ sub.s.filtered) =>
        sub.tickets =
            TicketsOf(Received,
                      LAMBDA evt : Named(evt) /\ ~Test(sub.s.filter, evt))

\* The aggregates of tickets.
TicketSet == {sub.tickets[k] : k \in 1..Len(sub.tickets)}

\* C26: over a store of a, b and c with one version-1 event each, one tick of
\* Periodically with the names a and b makes the two tickets of a and b, and
\* with no names the three tickets of a, b and c.
C26_PeriodicTickets ==
    (/\ sub.s.schedule = "periodically"
     /\ \A k \in 1..Len(sub.s.store) : sub.s.store[k].aggregateVersion = 1
     /\ ~sub.s.filtered
     /\ sub.ticks = 1
     /\ sub.tick.pc = "range"
     /\ sub.errs = 0) =>
        /\ TicketSet = {AggOf(sub.s.store[k]) :
                           k \in {i \in 1..Len(sub.s.store) :
                                     \/ sub.s.names = {}
                                     \/ sub.s.store[i].aggregateName
                                           \in sub.s.names}}
        /\ Len(sub.tickets) = Cardinality(TicketSet)

\* ---------------------------------------------------------------------------
\* The NATS event bus (src/unnamed/part_002): Subscribe, fanIn,
\* handleUnsubscribe, Errors, handleErrors and error, one action per goroutine
\* step.  The NATS connection is not part of the repository; it is modelled
\* from the specification: a published message is handed to every plain
\* subscription of its subject and to exactly one member of every queue group
\* of its subject.
\* ---------------------------------------------------------------------------

MaxMsgs == 2
MaxWaiting == 1

\* The callers of Subscribe.
Subscribers == {"s1", "s2"}

\* The queue group functions of a bus: the default, and one function that
\* puts the subscribers of an event name into the group of that name.
QueueFuncs == {"noQueue", "byName"}

noQueue(name) == ""

queueFunc(name) == IF bus.queueFunc = "noQueue" THEN noQueue(name) ELSE name

\* The names a subscriber passes to Subscribe: the first one subscribes to
\* two event names, the others to one.
NamesOf(i) == IF i = "s1" THEN <<"foo", "bar">> ELSE <<"foo">>

NoCallYet ==
    [pc |-> "none", canceled |-> FALSE, failed |-> FALSE, subs |-> <<>>,
     hu |-> [pc |-> "wait", k |-> 1], closed |-> FALSE, got |-> {},
     err |-> NoErr]

\* bus.conn.ChanSubscribe(subject, msgs): a plain transport subscription.
ChanSubscribe(name) ==
    [name |-> name, group |-> "", active |-> TRUE, pending |-> <<>>,
     dec |-> [pc |-> "range", msg |-> 0], done |-> FALSE]

\* bus.conn.ChanQueueSubscribe(subject, group, msgs).
ChanQueueSubscribe(name, group) ==
    [ChanSubscribe(name) EXCEPT !.group = group]

\* The subscriber made for one name by the loop of Subscribe when every
\* subscription is a plain one.
SubscriberPlain(name) == ChanSubscribe(name)

\* The subscriber made for one name by the loop of Subscribe.
Subscriber(name) ==
    IF queueFunc(name) # ""
    THEN ChanQueueSubscribe(name, queueFunc(name))
    ELSE ChanSubscribe(name)

\* No call of Errors yet: no error subscriber. done says that the context
\* of the subscriber is canceled, closes counts close(sub.errs).
NoErrorSubscriber ==
    [pc |-> "none", done |-> FALSE, closes |-> 0, sentOnClosed |-> FALSE]

BusInit ==
    /\ \E f \in QueueFuncs :
          bus = [pc |-> "bus", queueFunc |-> f, errorsCalled |-> FALSE,
                 errWaiting |-> 0, errSub |-> NoErrorSubscriber,
                 published |-> <<>>, panicked |-> FALSE,
                 calls |-> [i \in Subscribers |-> NoCallYet]]
    /\ entries = {}
    /\ states = EmptyBag
    /\ tx = [p \in Procs |-> Idle]
    /\ agg = newMockAggregate(AggX)
    /\ call = NoCall
    /\ use = [pc |-> "idle"]
    /\ cache = [pc |-> "idle"]
    /\ runs = [pc |-> "idle"]
    /\ job = [pc |-> "idle"]
    /\ pipe = [pc |-> "idle"]
    /\ sub = [pc |-> "idle"]
    /\ locks = [pc |-> "idle"]
    /\ filt = [pc |-> "idle"]
    /\ app = [pc |-> "idle"]

\* A step of the bus; a panic ends the program.
BusStep(next) ==
    /\ ~bus.panicked
    /\ bus' = next
    /\ UNCHANGED <<entries, states, tx, agg, call, use, cache, runs, job,
                   pipe, sub, locks, filt, app>>

\* EventBus.Subscribe(ctx, names...): one transport subscription per name;
\* when the transport rejects the name at failAt the loop stops, the context
\* given to handleUnsubscribe is canceled at once, and the channel of fanIn
\* is returned with a nil error.
Subscribe(i, failAt) ==
    /\ bus.calls[i].pc = "none"
    /\ LET made == IF failAt = 0 THEN NamesOf(i)
                   ELSE SubSeq(NamesOf(i), 1, failAt - 1)
       IN BusStep([bus EXCEPT !.calls[i] =
             [NoCallYet EXCEPT
                !.pc = "subscribed",
                !.subs = [k \in 1..Len(made) |-> Subscriber(made[k])],
                !.failed = failAt # 0,
                !.canceled = failAt # 0,
                !.err = NoErr]])

\* The transport subscriptions that are live for the subject name.
Live(name) ==
    {t \in Subscribers \X (1..2) :
        /\ t[2] <= Len(bus.calls[t[1]].subs)
        /\ bus.calls[t[1]].subs[t[2]].active
        /\ bus.calls[t[1]].subs[t[2]].name = name}

Plain(name) == {t \in Live(name) : bus.calls[t[1]].subs[t[2]].group = ""}

Queued(name) == Live(name) \ Plain(name)

\* The transport's choices of receivers of one message on the subject name:
\* every plain subscription, and one member of the queue group.
Receivers(name) ==
    IF Queued(name) = {} THEN {Plain(name)}
    ELSE {Plain(name) \cup {q} : q \in Queued(name)}

\* EventBus.Publish(ctx, evt): the event is encoded and published to the
\* subject of its name; ok says whether the subscribers can decode it.
Publish(name, ok) ==
    /\ Len(bus.published) < MaxMsgs
    /\ \E to \in Receivers(name) :
          LET m == Len(bus.published) + 1
          IN BusStep([bus EXCEPT
                !.published = Append(@, [name |-> name, ok |-> ok]),
                !.calls = [i \in Subscribers |->
                    [@[i] EXCEPT !.subs = [k \in 1..Len(@) |->
                        IF <<i, k>> \in to
                        THEN [@[k] EXCEPT !.pending = Append(@, m)]
                        ELSE @[k]]]]])

\* fanIn, decode goroutine: the next message of sub.msgs is received and
\* decoded; a failure is reported through bus.error.
fanInDecode(i, k) ==
    /\ k <= Len(bus.calls[i].subs)
    /\ LET s == bus.calls[i].subs[k]
       IN /\ s.dec.pc = "range"
          /\ s.pending # <<>>
          /\ BusStep([bus EXCEPT !.calls[i].subs[k] =
                [s EXCEPT !.pending = Tail(@),
                          !.dec = IF bus.published[Head(s.pending)].ok
                                  THEN [pc |-> "send", msg |-> Head(s.pending)]
                                  ELSE [pc |-> "error", msg |-> 0]]])

\* fanIn, decode goroutine: events <- event.New(...).  A send on the closed
\* channel panics.
fanInSend(i, k) ==
    /\ k <= Len(bus.calls[i].subs)
    /\ LET s == bus.calls[i].subs[k]
       IN /\ s.dec.pc = "send"
          /\ IF bus.calls[i].closed
             THEN BusStep([bus EXCEPT !.panicked = TRUE])
             ELSE BusStep([bus EXCEPT
                     !.calls[i].got = @ \cup {s.dec.msg},
                     !.calls[i].subs[k].dec = [pc |-> "range", msg |-> 0]])

\* fanIn: every subscriber's done channel is closed, wg.Wait() returns and
\* the events channel is closed.
fanInClose(i) ==
    /\ bus.calls[i].pc = "subscribed"
    /\ ~bus.calls[i].closed
    /\ \A k \in 1..Len(bus.calls[i].subs) : bus.calls[i].subs[k].done
    /\ BusStep([bus EXCEPT !.calls[i].closed = TRUE])

\* handleUnsubscribe from subscriber `from` on: every subscriber is
\* unsubscribed and its done channel closed, up to the one at failAt, whose
\* Unsubscribe fails and is reported through bus.error before close(sub.done).
Unsubscribed(c, from, failAt) ==
    LET last == IF failAt = 0 THEN Len(c.subs) ELSE failAt
    IN [c EXCEPT
          !.subs = [k \in 1..Len(c.subs) |->
                      IF k < from \/ k > last THEN c.subs[k]
                      ELSE [c.subs[k] EXCEPT !.active = FALSE,
                                             !.pending = <<>>,
                                             !.done = (k # failAt)]],
          !.hu = IF failAt = 0 THEN [pc |-> "end", k |-> Len(c.subs) + 1]
                 ELSE [pc |-> "error", k |-> failAt]]

\* handleUnsubscribe: after <-ctx.Done() the subscribers are unsubscribed.
handleUnsubscribe(i, failAt) ==
    LET c == bus.calls[i]
    IN /\ c.pc = "subscribed"
       /\ c.canceled
       /\ c.hu.pc = "wait"
       /\ failAt <= Len(c.subs)
       /\ BusStep([bus EXCEPT !.calls[i] = Unsubscribed(c, 1, failAt)])

\* The context of a Subscribe call is canceled.
BusCancel(i) ==
    /\ bus.calls[i].pc = "subscribed"
    /\ ~bus.calls[i].canceled
    /\ BusStep([bus EXCEPT !.calls[i].canceled = TRUE])

\* EventBus.Errors(ctx): the first call starts handleErrors; the subscriber
\* is added to bus.errSubs and handleErrorUnsubscribe is started.
Errors ==
    /\ bus.errSub.pc = "none"
    /\ BusStep([bus EXCEPT !.errorsCalled = TRUE, !.errSub.pc = "live"])

\* handleErrors, for the error it has received: one goroutine is started for
\* every subscriber of bus.errSubs.
FannedOut(b) ==
    IF b.errSub.pc = "live" /\ b.errWaiting < MaxWaiting
    THEN [b EXCEPT !.errWaiting = @ + 1]
    ELSE b

\* handleErrors receives the error of a decode goroutine that is blocked in
\* bus.error, and starts the goroutines that send it to the subscribers.
handleErrorsDecode(i, k) ==
    /\ bus.errorsCalled
    /\ k <= Len(bus.calls[i].subs)
    /\ bus.calls[i].subs[k].dec.pc = "error"
    /\ BusStep(FannedOut([bus EXCEPT !.calls[i].subs[k].dec.pc = "range"]))

\* handleErrors receives the error of a handleUnsubscribe that is blocked in
\* bus.error; handleUnsubscribe closes sub.done and goes on with its loop.
handleErrorsUnsubscribe(i, failAt) ==
    LET c == bus.calls[i]
    IN /\ bus.errorsCalled
       /\ c.hu.pc = "error"
       /\ failAt = 0 \/ (c.hu.k < failAt /\ failAt <= Len(c.subs))
       /\ BusStep(FannedOut([bus EXCEPT
             !.calls[i] = Unsubscribed([c EXCEPT !.subs[c.hu.k].done = TRUE],
                                       c.hu.k + 1, failAt)]))

\* A goroutine of handleErrors holds sub.mux and its select takes
\* `sub.errs <- err`: the reader of the channel receives the error.
ErrorsRecv ==
    /\ bus.errWaiting > 0
    /\ bus.errSub.closes = 0
    /\ BusStep([bus EXCEPT !.errWaiting = @ - 1])

\* A goroutine of handleErrors holds sub.mux and its select takes
\* `<-sub.ctx.Done()`.
handleErrorsDone ==
    /\ bus.errWaiting > 0
    /\ bus.errSub.done
    /\ BusStep([bus EXCEPT !.errWaiting = @ - 1])

\* A goroutine of handleErrors holds sub.mux and its select takes
\* `sub.errs <- err` on the closed channel: the send panics.
handleErrorsSendClosed ==
    /\ bus.errWaiting > 0
    /\ bus.errSub.closes > 0
    /\ BusStep([bus EXCEPT !.errSub.sentOnClosed = TRUE, !.panicked = TRUE])

\* The context passed to Errors is canceled.
ErrorsCancel ==
    /\ bus.errSub.pc = "live"
    /\ ~bus.errSub.done
    /\ BusStep([bus EXCEPT !.errSub.done = TRUE])

\* handleErrorUnsubscribe: after <-sub.ctx.Done() the subscriber is removed
\* from bus.errSubs under bus.errMux.
handleErrorUnsubscribe ==
    /\ bus.errSub.pc = "live"
    /\ bus.errSub.done
    /\ BusStep([bus EXCEPT !.errSub.pc = "removed"])

\* The deferred sub.close() of handleErrorUnsubscribe: close(sub.errs) under
\* sub.mux.
errorSubscriberClose ==
    /\ bus.errSub.pc = "removed"
    /\ BusStep([bus EXCEPT !.errSub.pc = "closed", !.errSub.closes = @ + 1])

BusNext ==
    \/ \E i \in Subscribers : \E failAt \in 0..Len(NamesOf(i)) :
          Subscribe(i, failAt)
    \/ \E ok \in BOOLEAN : Publish("foo", ok)
    \/ \E i \in Subscribers : \E k \in 1..2 : fanInDecode(i, k)
    \/ \E i \in Subscribers : \E k \in 1..2 : fanInSend(i, k)
    \/ \E i \in Subscribers : fanInClose(i)
    \/ \E i \in Subscribers : \E failAt \in 0..2 : handleUnsubscribe(i, failAt)
    \/ \E i \in Subscribers : BusCancel(i)
    \/ Errors
    \/ \E i \in Subscribers : \E k \in 1..2 : handleErrorsDecode(i, k)
    \/ \E i \in Subscribers : \E failAt \in 0..2 :
          handleErrorsUnsubscribe(i, failAt)
    \/ ErrorsRecv
    \/ handleErrorsDone
    \/ handleErrorsSendClosed
    \/ ErrorsCancel
    \/ handleErrorUnsubscribe
    \/ errorSubscriberClose

BusSpec == BusInit /\ [][BusNext]_vars

\* Every goroutine of the bus takes the steps it can take; the callers of
\* Subscribe, Publish and Errors, the owners of the contexts and the reader
\* of the error channel are free.
FairBusSpec ==
    /\ BusSpec
    /\ \A i \in Subscribers : \A k \in 1..2 :
          /\ WF_vars(fanInDecode(i, k))
          /\ WF_vars(fanInSend(i, k))
          /\ WF_vars(handleErrorsDecode(i, k))
    /\ \A i \in Subscribers :
          /\ WF_vars(fanInClose(i))
          /\ WF_vars(\E failAt \in 0..2 : handleUnsubscribe(i, failAt))
          /\ WF_vars(\E failAt \in 0..2 : handleErrorsUnsubscribe(i, failAt))
    /\ WF_vars(handleErrorsDone \/ handleErrorsSendClosed)
    /\ WF_vars(handleErrorUnsubscribe)
    /\ WF_vars(errorSubscriberClose)

\* The transport subscriptions that are handed a message by this step.
Handed ==
    {t \in Subscribers \X (1..2) :
        /\ t[2] <= Len(bus.calls[t[1]].subs)
        /\ Len(bus'.calls[t[1]].subs[t[2]].pending) >
              Len(bus.calls[t[1]].subs[t[2]].pending)}

\* The subscribers that hold or have received message m.
Holders(m) ==
    {i \in Subscribers :
        \/ m \in bus.calls[i].got
        \/ \E k \in 1..Len(bus.calls[i].subs) :
              \/ bus.calls[i].subs[k].dec.msg = m
              \/ \E n \in 1..Len(bus.calls[i].subs[k].pending) :
                    bus.calls[i].subs[k].pending[n] = m}

\* C27: with a queue group function every published event is handed to
\* exactly one of the live subscribers of its name, and no two subscribers
\* ever hold the same event; with the default noQueue every live
\* subscription of the name is handed every published event.
C27_QueueGroupDelivery ==
    /\ [][Len(bus'.published) > Len(bus.published) =>
            IF bus.queueFunc = "noQueue" THEN Handed = Live("foo")
            ELSE /\ Handed \subseteq Live("foo")
                 /\ Cardinality(Handed) = IF Live("foo") = {} THEN 0 ELSE 1]_vars
    /\ [](bus.queueFunc # "noQueue" =>
            \A m \in 1..Len(bus.published) : Cardinality(Holders(m)) <= 1)

\* Both subscribers are live in one queue group, and each of them has
\* received one of the two published events.
C27_Witness ==
    /\ bus.queueFunc = "byName"
    /\ \A i \in Subscribers : bus.calls[i].subs # <<>> /\ bus.calls[i].subs[1].active
    /\ bus.calls["s1"].got = {1}
    /\ bus.calls["s2"].got = {2}

\* C28: the events channel is closed only after the context is canceled and
\* every transport subscription is unsubscribed, and no event is sent on the
\* closed events channel.
C28_ShutdownPanicFree ==
    /\ \A i \in Subscribers :
          bus.calls[i].closed =>
             /\ bus.calls[i].canceled
             /\ \A k \in 1..Len(bus.calls[i].subs) : ~bus.calls[i].subs[k].active
    /\ ~bus.panicked

\* The decode goroutine of subscriber k of call i is blocked in bus.error.
InError(i, k) ==
    /\ k <= Len(bus.calls[i].subs)
    /\ bus.calls[i].subs[k].dec.pc = "error"

\* C29: a goroutine that reports an error through bus.error goes on, so the
\* decode goroutine returns to its loop and, after the cancellation, the
\* events channel is closed, whether or not Errors has been called.
C29_ErrorsNeverStall ==
    /\ \A i \in Subscribers : \A k \in 1..2 :
          InError(i, k) ~> (bus.panicked \/ ~InError(i, k))
    /\ \A i \in Subscribers :
          (bus.calls[i].pc = "subscribed" /\ bus.calls[i].canceled)
             ~> (bus.panicked \/ bus.calls[i].closed)

\* --------------------------------------------- the cache map and its lock

\* The goroutine c reads the cache map in this step: it leaves c.cached, or
\* the runtime ends the process during its read.
ReadsMap(c) ==
    /\ runs[c].pc \in {"cached", "recheck"}
    /\ runs'[c].pc # runs[c].pc \/ cache'.fatal # cache.fatal

\* C30: the cache map is read only under the RW lock: no goroutine reads it
\* while another goroutine is writing it in update.
C30_MapReadsLocked ==
    [][\A c \in Callers : ReadsMap(c) => cache.writer = ""]_vars

\* ---------------------------------------------------------------------------
\* The locks of the query cache (src/unnamed/part_001, queryCache.run,
\* cached, acquireQueryLock, intercept, update) for runs of queries with
\* several fingerprints, one action per lock operation.
\* ---------------------------------------------------------------------------

\* The goroutines that call run, and the fingerprints of their queries.
Runners == {"g1", "g2", "g3"}
Hashes == {"h1", "h2"}

LockInit ==
    /\ locks = [pc |-> "cache", locksMux |-> "",
                mux |-> [h \in Hashes |-> ""], made |-> {}, done |-> {},
                r |-> [g \in Runners |-> [pc |-> "idle", hash |-> "h1"]]]
    /\ entries = {}
    /\ states = EmptyBag
    /\ tx = [p \in Procs |-> Idle]
    /\ agg = newMockAggregate(AggX)
    /\ call = NoCall
    /\ use = [pc |-> "idle"]
    /\ cache = [pc |-> "idle"]
    /\ runs = [pc |-> "idle"]
    /\ job = [pc |-> "idle"]
    /\ pipe = [pc |-> "idle"]
    /\ sub = [pc |-> "idle"]
    /\ bus = [pc |-> "idle"]
    /\ filt = [pc |-> "idle"]
    /\ app = [pc |-> "idle"]

LockStep(next) ==
    /\ locks' = next
    /\ UNCHANGED <<entries, states, tx, agg, call, use, cache, runs, job,
                   pipe, sub, bus, filt, app>>

\* run(ctx, q) is called: hash := hashQuery(q).
hashQuery(g, h) ==
    /\ locks.r[g].pc = "idle"
    /\ LockStep([locks EXCEPT !.r[g] = [pc |-> "cached", hash |-> h]])

\* events, ok := c.cached(hash, true): on a hit run returns the cached
\* events.
cachedLocked(g) ==
    /\ locks.r[g].pc = "cached"
    /\ LockStep([locks EXCEPT !.r[g].pc =
          IF locks.r[g].hash \in locks.done THEN "idle" ELSE "locksMux"])

\* acquireQueryLock: c.locksMux.Lock(), and the mutex of the fingerprint is
\* looked up in c.locks or made.
locksMuxLock(g) ==
    /\ locks.r[g].pc = "locksMux"
    /\ locks.locksMux = ""
    /\ LockStep([locks EXCEPT !.locksMux = g,
                              !.made = @ \cup {locks.r[g].hash},
                              !.r[g].pc = "mux"])

\* acquireQueryLock: mux.Lock() is called with c.locksMux held; the deferred
\* c.locksMux.Unlock() runs when acquireQueryLock returns.
muxLock(g) ==
    /\ locks.r[g].pc = "mux"
    /\ locks.mux[locks.r[g].hash] = ""
    /\ LockStep([locks EXCEPT !.mux[locks.r[g].hash] = g,
                              !.locksMux = "",
                              !.r[g].pc = "recheck"])

\* c.cached(hash, false) after the lock: on a hit run returns, and the
\* deferred unlock() unlocks the mutex of the fingerprint.
cachedAgain(g) ==
    /\ locks.r[g].pc = "recheck"
    /\ LockStep(IF locks.r[g].hash \in locks.done
                THEN [locks EXCEPT !.mux[locks.r[g].hash] = "",
                                   !.r[g].pc = "idle"]
                ELSE [locks EXCEPT !.r[g].pc = "query"])

\* c.store.Query(ctx, q) returns, run returns and unlock() unlocks the mutex
\* of the fingerprint; the goroutine of intercept forwards the stream.
storeQueryReturns(g, fails) ==
    /\ locks.r[g].pc = "query"
    /\ LockStep([locks EXCEPT !.mux[locks.r[g].hash] = "",
                              !.r[g].pc = IF fails THEN "idle" ELSE "stream"])

\* intercept: the stream has ended and c.update(hash, events) stores the
\* result; or the context is canceled and nothing is stored.
interceptReturns(g, canceled) ==
    /\ locks.r[g].pc = "stream"
    /\ LockStep([locks EXCEPT
          !.done = IF canceled THEN @ ELSE @ \cup {locks.r[g].hash},
          !.r[g].pc = "idle"])

LockNext ==
    \/ \E g \in Runners : \E h \in Hashes : hashQuery(g, h)
    \/ \E g \in Runners : cachedLocked(g)
    \/ \E g \in Runners : locksMuxLock(g)
    \/ \E g \in Runners : muxLock(g)
    \/ \E g \in Runners : cachedAgain(g)
    \/ \E g \in Runners : \E fails \in BOOLEAN : storeQueryReturns(g, fails)
    \/ \E g \in Runners : \E canceled \in BOOLEAN : interceptReturns(g, canceled)

LockSpec == LockInit /\ [][LockNext]_vars

\* The goroutine g is in store.Query with the mutex of its fingerprint held:
\* a build in progress.
Building(g) == locks.r[g].pc = "query"

\* C31: a run waits for c.locksMux only during the short critical section
\* of acquireQueryLock: the goroutine that holds c.locksMux is never one that
\* waits for the build of another fingerprint.
C31_FingerprintsIndependent ==
    \A g, w, b \in Runners :
        (/\ locks.r[g].pc = "locksMux"
         /\ locks.locksMux = w
         /\ locks.r[w].pc = "mux"
         /\ locks.mux[locks.r[w].hash] = b
         /\ Building(b))
            => locks.r[g].hash = locks.r[b].hash

\* C32: after the context is canceled the goroutine of a periodic schedule
\* eventually returns and closes jobs and errs; after a failed query the
\* error is sent on errs and both channels are closed.
C32_PeriodicTerminates ==
    /\ (sub.s.schedule = "periodically" /\ sub.canceled)
          ~> (sub.closes.jobs > 0 /\ sub.closes.errs > 0)
    /\ (sub.tick.pc = "errs" /\ sub.tick.final)
          ~> (sub.errs > 0 /\ sub.closes.jobs > 0 /\ sub.closes.errs > 0)

\* The ids of the events of a stream.
IdsOf(events) == [k \in 1..Len(events) |-> events[k].id]

C34_SubscribeReportsFailure ==
    \A i \in Subscribers :
        bus.calls[i].failed => bus.calls[i].err # NoErr

\* C35: the channel returned by Errors is closed only after its context is
\* canceled and at most once, and no error is sent on it once it is closed.
C35_ErrorChannelSafe ==
    /\ ~bus.errSub.sentOnClosed
    /\ bus.errSub.closes <= 1
    /\ bus.errSub.closes > 0 => bus.errSub.done

(***************************************************************************)
(* Job.Apply, step by step (ApplySpec): Apply starts the goroutine that    *)
(* runs ApplyStream on the events channel and then selects on ctx.Done(),  *)
(* on the errs channel and on done. The store behind the job sends the     *)
(* events and its errors while Apply waits; what the store does is taken   *)
(* from the specification of event.Store.                                  *)
(***************************************************************************)

\* The largest number of events the query of the job yields.
MaxStream == 2

\* The k-th event of the stream.
StreamEvent(k) == [id |-> k, time |-> k]

ApplyInit ==
    /\ app = [pc |-> "ready", n |-> 0, sent |-> 0, hand |-> 0,
              failed |-> FALSE, errWaiting |-> FALSE, closed |-> FALSE,
              errs |-> "open", done |-> FALSE, canceled |-> FALSE,
              ret |-> "", target |-> NewTarget]
    /\ entries = {}
    /\ states = EmptyBag
    /\ tx = [p \in Procs |-> Idle]
    /\ agg = newMockAggregate(AggX)
    /\ call = NoCall
    /\ use = [pc |-> "idle"]
    /\ cache = [pc |-> "idle"]
    /\ runs = [pc |-> "idle"]
    /\ job = [pc |-> "idle"]
    /\ pipe = [pc |-> "idle"]
    /\ sub = [pc |-> "idle"]
    /\ bus = [pc |-> "idle"]
    /\ locks = [pc |-> "idle"]
    /\ filt = [pc |-> "idle"]

ApplyStep(next) ==
    /\ app' = next
    /\ UNCHANGED <<entries, states, tx, agg, call, use, cache, runs, job,
                   pipe, sub, bus, locks, filt>>

\* Apply up to its loop: EventsFor has returned the channels of a query
\* that yields n events, and the goroutine of ApplyStream is started.
ApplyCall(n) ==
    /\ app.pc = "ready"
    /\ ApplyStep([app EXCEPT !.pc = "select", !.n = n])

\* The context of the call is canceled.
ApplyCancel ==
    /\ app.pc # "ready"
    /\ ~app.canceled
    /\ ApplyStep([app EXCEPT !.canceled = TRUE])

\* queryCache.intercept hands the next event of the store to ApplyStream,
\* which is waiting on the events channel.
interceptSend ==
    /\ app.pc # "ready"
    /\ ~app.closed
    /\ app.sent < app.n
    /\ app.hand = 0
    /\ ApplyStep([app EXCEPT !.sent = @ + 1, !.hand = app.sent + 1])

\* The store reports an error of the query on the errs channel.
storeFail ==
    /\ app.pc # "ready"
    /\ ~app.closed
    /\ ~app.failed
    /\ ApplyStep([app EXCEPT !.failed = TRUE, !.errWaiting = TRUE])

\* The events channel is closed: the store has sent every event or has
\* given up after its error, or intercept has seen ctx.Done().
interceptClose ==
    /\ app.pc # "ready"
    /\ ~app.closed
    /\ app.sent = app.n \/ app.failed \/ app.canceled
    /\ ApplyStep([app EXCEPT !.closed = TRUE])

\* ApplyStream applies the event it has received: target.ApplyEvent(evt)
\* and target.SetProgress(evt.Time()).
applyStreamEvent ==
    /\ app.hand # 0
    /\ ApplyStep([app EXCEPT
          !.hand = 0,
          !.target = ApplyStream(@, <<StreamEvent(app.hand)>>)])

\* ApplyStream returns when the events channel is closed, and the deferred
\* close(done) runs.
applyStreamReturns ==
    /\ app.closed
    /\ app.hand = 0
    /\ ~app.done
    /\ ApplyStep([app EXCEPT !.done = TRUE])

\* case <-ctx.Done(): return ctx.Err()
ApplyCtxDone ==
    /\ app.pc = "select"
    /\ app.canceled
    /\ ApplyStep([app EXCEPT !.pc = "returned", !.ret = "ctx"])

\* case err, ok := <-errs with ok: return err
ApplyRecvErr ==
    /\ app.pc = "select"
    /\ app.errs = "open"
    /\ app.errWaiting
    /\ ApplyStep([app EXCEPT !.pc = "returned", !.ret = "err",
                             !.errWaiting = FALSE])

\* case err, ok := <-errs with the channel closed: errs = nil
ApplyErrsClosed ==
    /\ app.pc = "select"
    /\ app.errs = "open"
    /\ app.closed
    /\ ~app.errWaiting
    /\ ApplyStep([app EXCEPT !.errs = "nil"])

\* case <-done: return nil
ApplyDone ==
    /\ app.pc = "select"
    /\ app.done
    /\ ApplyStep([app EXCEPT !.pc = "returned", !.ret = "nil"])

ApplyNext ==
    \/ \E n \in 0..MaxStream : ApplyCall(n)
    \/ ApplyCancel
    \/ interceptSend
    \/ storeFail
    \/ interceptClose
    \/ applyStreamEvent
    \/ applyStreamReturns
    \/ ApplyCtxDone
    \/ ApplyRecvErr
    \/ ApplyErrsClosed
    \/ ApplyDone

ApplySpec == ApplyInit /\ [][ApplyNext]_vars

\* C36: once Apply has returned, the target is not touched by that Apply:
\* no ApplyEvent and no SetProgress follows the return.
C36_NoApplyAfterReturn ==
    [][app.pc = "returned" => app'.target = app.target]_vars

\* How often interceptor i was called with evt.
Invocations(i, evt) ==
    Cardinality({c \in pipe.calls : c.i = i /\ c.evt = evt})

\* C37: an interceptor is never called with an event that an interceptor
\* returned, and when the stream has ended without cancellation every
\* interceptor was called exactly once with every queried event (k
\* interceptors and n queried events make k*n calls).
C37_OncePerQueriedEvent ==
    /\ \A c \in pipe.calls : Len(c.evt) = 1
    /\ (pipe.fw = "closed" /\ ~pipe.canceled) =>
          /\ \A i \in 1..pipe.n : \A k \in 1..Len(pipe.query) :
                Invocations(i, <<k>>) = 1
          /\ Cardinality(pipe.calls) = pipe.n * Len(pipe.query)

(***************************************************************************)
(* The filter slices of a job (FilterSpec). j.filter is a Go slice: a      *)
(* backing array, a length and a capacity. append writes into the backing  *)
(* array when the capacity suffices and allocates a larger array when it   *)
(* does not; by how much a new array is larger than needed is left to the  *)
(* implementation (gc doubles the capacity of a small slice), so it is     *)
(* drawn in Init. event.Filter tests every event of the stream against the *)
(* slice it was given when the event arrives.                              *)
(***************************************************************************)

\* The largest number of WithFilter options of a job.
MaxFilters == 3

\* How append sizes a new backing array: as large as needed, or at least
\* twice the old capacity.
Growths == {"exact", "double"}

\* The nil slice.
NilSlice == [arr |-> 0, len |-> 0]

\* cap(s) in heap.
Cap(heap, s) == IF s.arr = 0 THEN 0 ELSE Len(heap[s.arr])

\* The elements of the slice s in heap.
Contents(heap, s) == [k \in 1..s.len |-> heap[s.arr][k][1]]

\* append(s, qs...): the heap after it and the slice it returns. A cell of
\* a backing array is <<>> while nothing was written to it.
appendQueries(growth, heap, s, qs) ==
    LET need == s.len + Len(qs)
        Cell(k) == IF k <= s.len THEN heap[s.arr][k]
                   ELSE IF k <= need THEN <<qs[k - s.len]>>
                   ELSE IF s.arr # 0 /\ k <= Cap(heap, s) THEN heap[s.arr][k]
                   ELSE <<>>
        newcap == IF growth = "double" /\ 2 * Cap(heap, s) > need
                  THEN 2 * Cap(heap, s) ELSE need
    IN IF need <= Cap(heap, s)
       THEN [heap |-> IF s.arr = 0 THEN heap
                      ELSE [heap EXCEPT ![s.arr] =
                               [k \in 1..Len(@) |-> Cell(k)]],
             s |-> [arr |-> s.arr, len |-> need]]
       ELSE [heap |-> Append(heap, [k \in 1..newcap |-> Cell(k)]),
             s |-> [arr |-> Len(heap) + 1, len |-> need]]

\* The events the query of the job yields.
FilterStream == <<LogEvent(1, 1, <<"foo", 1>>), LogEvent(2, 2, <<"bar", 1>>)>>

\* The queries given to WithFilter, and the extra filters of a call.
JobFilters == {NewQuery({}), NewQuery({"foo", "bar"})}
ExtraFilters == {<<>>, <<NewQuery({"foo"})>>, <<NewQuery({"bar"})>>}

\* The two calls of Events on the job.
FilterCalls == {"c1", "c2"}

NoFilterCall == [pc |-> "none", extra |-> <<>>, filter |-> NilSlice,
                 next |-> 1, out |-> <<>>]

FilterInit ==
    /\ \E growth \in Growths :
          filt = [growth |-> growth, heap |-> <<>>, filter |-> NilSlice,
                  opts |-> <<>>, built |-> FALSE,
                  call |-> [c \in FilterCalls |-> NoFilterCall]]
    /\ entries = {}
    /\ states = EmptyBag
    /\ tx = [p \in Procs |-> Idle]
    /\ agg = newMockAggregate(AggX)
    /\ call = NoCall
    /\ use = [pc |-> "idle"]
    /\ cache = [pc |-> "idle"]
    /\ runs = [pc |-> "idle"]
    /\ job = [pc |-> "idle"]
    /\ pipe = [pc |-> "idle"]
    /\ sub = [pc |-> "idle"]
    /\ bus = [pc |-> "idle"]
    /\ locks = [pc |-> "idle"]
    /\ app = [pc |-> "idle"]

FilterSpecStep(next) ==
    /\ filt' = next
    /\ UNCHANGED <<entries, states, tx, agg, call, use, cache, runs, job,
                   pipe, sub, bus, locks, app>>

\* An option WithFilter(q) of NewJob: j.filter = append(j.filter, q)
WithFilter(q) ==
    /\ ~filt.built
    /\ filt.filter.len < MaxFilters
    /\ LET r == appendQueries(filt.growth, filt.heap, filt.filter, <<q>>)
       IN FilterSpecStep([filt EXCEPT !.heap = r.heap, !.filter = r.s,
                                      !.opts = Append(@, q)])

\* job.Events(ctx, extra...): queryEvents appends the extra filters to
\* j.filter and hands the slice to event.Filter.
Events(c, extra) ==
    /\ filt.call[c].pc = "none"
    /\ LET r == appendQueries(filt.growth, filt.heap, filt.filter, extra)
       IN FilterSpecStep([filt EXCEPT
             !.built = TRUE,
             !.heap = r.heap,
             !.call[c] = [NoFilterCall EXCEPT !.pc = "stream",
                                              !.extra = extra,
                                              !.filter = r.s]])

\* event.Filter receives the next event of the query and sends it on when
\* every query of its slice tests true.
FilterRecv(c) ==
    /\ filt.call[c].pc = "stream"
    /\ filt.call[c].next <= Len(FilterStream)
    /\ LET evt == FilterStream[filt.call[c].next]
           qs == Contents(filt.heap, filt.call[c].filter)
           pass == \A k \in 1..Len(qs) : Test(qs[k], evt)
       IN FilterSpecStep([filt EXCEPT
             !.call[c].next = @ + 1,
             !.call[c].out = IF pass THEN Append(@, evt) ELSE @])

\* The stream of the query is closed: event.Filter closes its stream.
FilterClose(c) ==
    /\ filt.call[c].pc = "stream"
    /\ filt.call[c].next > Len(FilterStream)
    /\ FilterSpecStep([filt EXCEPT !.call[c].pc = "closed"])

FilterNext ==
    \/ \E q \in JobFilters : WithFilter(q)
    \/ \E c \in FilterCalls : \E extra \in ExtraFilters : Events(c, extra)
    \/ \E c \in FilterCalls : FilterRecv(c)
    \/ \E c \in FilterCalls : FilterClose(c)

FilterSpec == FilterInit /\ [][FilterNext]_vars

\* The queries of a list.
QueriesOf(qs) == {qs[k] : k \in 1..Len(qs)}

\* What the stream of call c is to yield: the events that the filters of
\* the job and the extra filters of that call test true.
Wanted(c) ==
    Filter(FilterStream, QueriesOf(filt.opts) \cup
                         QueriesOf(filt.call[c].extra))

\* C38: the stream of every call of Events yields the events that pass the
\* job's filters and that call's extra filters, whatever other calls are
\* made on the job, and the filter list of the job stays as the options
\* made it.
C38_ExtraFiltersPerCall ==
    /\ \A c \in FilterCalls :
          /\ IsPrefix(filt.call[c].out, Wanted(c))
          /\ filt.call[c].pc = "closed" => filt.call[c].out = Wanted(c)
    /\ Contents(filt.heap, filt.filter) = filt.opts

\* The store holds no event of a with a version of v or above.
HoldsFewer(ents, a, v) ==
    SetMax(StoredVersions(ents, <<a.name, a.id>>)) < v

\* The stored events of a with a version in [a.version+1, v].
InRange(ents, a, v) ==
    {e \in EventsOf(ents, a) : e.AggregateVersion \in (a.version + 1)..v}

StreamErr == MongoErr("cursor")

\* C40: Delete returns the first error it meets: a failing Store.Delete
\* stops the deletion and is returned wrapped, an iteration error of the
\* stream is returned as a non-nil error that wraps it, and Delete returns
\* nil only when every event of the aggregate was deleted.
C40_DeleteReportsFirstError ==
    \A fail \in DeleteFails : \A done \in Deleted(agg, entries, fail) :
        LET r == RepositoryDelete(agg, entries, done, fail)
        IN /\ fail = "delete" =>
                 /\ Cause(r.err) = MongoErr("delete")
                 /\ r.entries = deleteEvents(entries, done)
           /\ fail = "stream" =>
                 /\ r.err # NoErr
                 /\ Cause(r.err) = StreamErr
           /\ r.err = NoErr => EventsOf(r.entries, agg) = {}

====
